---------------------------- MODULE Spec2Model ----------------------------
(***************************************************************************)
(* A model of the ticket classification and thematic insight pipeline of   *)
(* pm-copilot (backend/).  Texts are sequences of one-character strings,   *)
(* so that the regular expressions, the substring tests and the slicing of *)
(* the Python code are computed character by character.                    *)
(***************************************************************************)
EXTENDS Integers, Sequences, FiniteSets, TLC

VARIABLES
    ct_in,      \* clean_text: the input string s
    ct_once,    \* clean_text(s), None before the call
    ct_twice,   \* clean_text(clean_text(s)), None before the call
    ty_in,      \* classify_ticket: the arguments
    ty_out,     \* classify_ticket's return value, None before the call
    pv_in,      \* classify_product_vertical: the arguments and the model's similarities
    pv_out,     \* classify_product_vertical's return value, None before the call
    tickets,    \* table tickets: the rows in id order
    tpv,        \* table ticket_product_verticals: the set of rows
    gold,       \* table ticket_gold_labels: the set of rows
    emb,        \* table ticket_embeddings: the set of rows
    theme_rows, \* table themes: the number of rows, counted up to MaxThemeRows
    result,     \* what the last service call returned or raised
    sg_in,      \* suggest_themes: the themes of the build and their tickets' rows
    sg_out,     \* suggest_themes's return value, None before the call
    runs,       \* concurrent pipeline runs: of each its position and its session
    singletons, \* the globals _model and _PROTO_VECS, and how often each was loaded
    threads,    \* the threads that use the embedding model: of each its position
    cache,      \* themes_cache._store: key -> (expires_at, value)
    now,        \* time.time(), in seconds since the process started
    data_version, \* the number of writes to the tickets and their derived records
    sync_state, \* table sync_state: of each source its last_updated_at
    filtered,   \* build_themes_filtered: the call and the data it returned
    sl_in       \* submit_labels: the items of the request

cleanVars == <<ct_in, ct_once, ct_twice>>

typeVars == <<ty_in, ty_out>>

vertVars == <<pv_in, pv_out>>

storeVars == <<tickets, tpv, gold, emb, theme_rows, result>>

suggestVars == <<sg_in, sg_out>>

\* the variables of the parts added to the pipeline's model
raceVars == <<runs>>

loadVars == <<singletons, threads>>

cacheVars == <<cache, now, data_version>>

syncVars == <<sync_state>>

filterVars == <<filtered>>

reviewVars == <<sl_in>>

extVars == <<suggestVars, raceVars, loadVars, cacheVars, syncVars, filterVars, reviewVars>>

vars == <<cleanVars, typeVars, vertVars, storeVars, extVars>>

\* An optional value: None is the empty tuple, a value v is <<v>>.
None == <<>>

Some(v) == <<v>>

\* None where the code holds a string or None (a slug, a name).
NoStr == "<None>"

Min2(a, b) == IF a <= b THEN a ELSE b

\* The function f as a table of its values, each computed once.
Tabulate(f) == f @@ <<>>

Max2(a, b) == IF a >= b THEN a ELSE b

(***************************************************************************)
(* Characters and Python's str helpers.                                    *)
(***************************************************************************)
LowerLetters ==
    <<"a","b","c","d","e","f","g","h","i","j","k","l","m",
      "n","o","p","q","r","s","t","u","v","w","x","y","z">>

UpperLetters ==
    <<"A","B","C","D","E","F","G","H","I","J","K","L","M",
      "N","O","P","Q","R","S","T","U","V","W","X","Y","Z">>

Digits == {"0","1","2","3","4","5","6","7","8","9"}

Range(f) == {f[i] : i \in DOMAIN f}

LowerSet == Range(LowerLetters)

UpperSet == Range(UpperLetters)

WordChars == LowerSet \cup UpperSet \cup Digits \cup {"_"}

SpaceChars == {" ", "\n", "\t", "\r"}

\* \w of Python's re for the characters of the model: [A-Za-z0-9_]
IsWordChar(c) == c \in WordChars

\* \s of Python's re, and what str.strip() strips
IsSpace(c) == c \in SpaceChars

LowerChar(c) ==
    IF c \in UpperSet
    THEN LowerLetters[CHOOSE i \in 1..26 : UpperLetters[i] = c]
    ELSE c

UpperChar(c) ==
    IF c \in LowerSet
    THEN UpperLetters[CHOOSE i \in 1..26 : LowerLetters[i] = c]
    ELSE c

\* str.lower() / str.upper()
Lower(s) == [i \in 1..Len(s) |-> LowerChar(s[i])]

Upper(s) == [i \in 1..Len(s) |-> UpperChar(s[i])]

\* s[i:i+len(lit)] == lit, for a 1-based position i
LitAt(s, i, lit) ==
    /\ i >= 1
    /\ i + Len(lit) - 1 <= Len(s)
    /\ SubSeq(s, i, i + Len(lit) - 1) = lit

\* `lit in s`
Contains(s, lit) ==
    \/ lit = <<>>
    \/ \E i \in 1..(Len(s) - Len(lit) + 1) : s[i] = lit[1] /\ LitAt(s, i, lit)

\* str.strip(): without leading and trailing whitespace
Strip(s) ==
    LET keep == {i \in 1..Len(s) : ~IsSpace(s[i])}
    IN  IF keep = {} THEN <<>>
        ELSE LET lo == CHOOSE i \in keep : \A j \in 1..(i - 1) : IsSpace(s[j])
                 hi == CHOOSE i \in keep : \A j \in (i + 1)..Len(s) : IsSpace(s[j])
             IN  SubSeq(s, lo, hi)

\* s[:n]
Clip(s, n) == SubSeq(s, 1, Min2(Len(s), n))

(***************************************************************************)
(* nlp/preprocess.py                                                       *)
(***************************************************************************)
\* the safety clip of clean_text
CLIP == 4000

\* The backquote character (a TLA+ string cannot hold it).
Tick == "<backquote>"

BackTicks == <<Tick, Tick, Tick>>

\* The first position >= p where ``` starts, 0 when there is none.
NextFence(s, p) ==
    LET hits == {i \in p..(Len(s) - 2) : LitAt(s, i, BackTicks)}
    IN  IF hits = {} THEN 0 ELSE CHOOSE i \in hits : \A j \in hits : i <= j

\* CODEBLOCK.sub(" ", s) from position p on: CODEBLOCK = ```.*?``` with re.S,
\* the leftmost opening fence with the nearest closing fence after it, one
\* space for each match, the scan going on after the closing fence.
RECURSIVE SubCodeFrom(_, _)
SubCodeFrom(s, p) ==
    LET open == NextFence(s, p)
        close == IF open = 0 THEN 0 ELSE NextFence(s, open + 3)
    IN  IF close = 0
        THEN SubSeq(s, p, Len(s))
        ELSE SubSeq(s, p, open - 1) \o <<" ">> \o SubCodeFrom(s, close + 3)

SubCode(s) == SubCodeFrom(s, 1)

Http == <<"h","t","t","p",":","/","/">>

Https == <<"h","t","t","p","s",":","/","/">>

\* Where the \S+ of a URL starting at i would begin: after http:// or https://,
\* 0 when neither is at i or no non-space character follows.
UrlBodyAt(s, i) ==
    LET b == IF LitAt(s, i, Http) THEN i + 7
             ELSE IF LitAt(s, i, Https) THEN i + 8 ELSE 0
    IN  IF b # 0 /\ b <= Len(s) /\ ~IsSpace(s[b]) THEN b ELSE 0

\* The end (exclusive) of the run of non-space characters starting at j.
RECURSIVE NonSpaceEnd(_, _)
NonSpaceEnd(s, j) ==
    IF j > Len(s) \/ IsSpace(s[j]) THEN j ELSE NonSpaceEnd(s, j + 1)

\* URL.sub(" ", s) from position p on: URL = https?://\S+
RECURSIVE SubUrlFrom(_, _)
SubUrlFrom(s, p) ==
    LET hits == {i \in p..Len(s) : UrlBodyAt(s, i) # 0}
    IN  IF hits = {}
        THEN SubSeq(s, p, Len(s))
        ELSE LET i == CHOOSE h \in hits : \A j \in hits : h <= j
             IN  SubSeq(s, p, i - 1) \o <<" ">>
                    \o SubUrlFrom(s, NonSpaceEnd(s, UrlBodyAt(s, i)))

SubUrl(s) == SubUrlFrom(s, 1)

\* s.replace("\n", " ")
ReplaceNewlines(s) == [i \in 1..Len(s) |-> IF s[i] = "\n" THEN " " ELSE s[i]]

KeepFlag(x) == x.keep

\* WS.sub(" ", s): WS = \s+, each run of whitespace becomes one space
CollapseSpace(s) ==
    LET marked == [i \in 1..Len(s) |->
                     [c |-> IF IsSpace(s[i]) THEN " " ELSE s[i],
                      keep |-> ~IsSpace(s[i]) \/ i = 1 \/ ~IsSpace(s[i - 1])]]
        kept == SelectSeq(marked, KeepFlag)
    IN  [i \in 1..Len(kept) |-> kept[i].c]

\* clean_text with the clip length as a parameter
CleanTextTo(s, n) ==
    IF s = <<>> THEN <<>>
    ELSE Clip(Strip(CollapseSpace(ReplaceNewlines(SubUrl(SubCode(s))))), n)

clean_text(s) == CleanTextTo(s, CLIP)

(***************************************************************************)
(* nlp/classify.py                                                         *)
(***************************************************************************)
\* \b at position p (between s[p-1] and s[p]), p in 1..Len(s)+1
WordBoundary(s, p) ==
    LET before == p > 1 /\ IsWordChar(s[p - 1])
        after == p <= Len(s) /\ IsWordChar(s[p])
    IN  before # after

\* \b(lit)\b matches somewhere in s
WordMatch(s, lit) ==
    \E i \in 1..(Len(s) - Len(lit) + 1) :
        /\ LitAt(s, i, lit)
        /\ WordBoundary(s, i)
        /\ WordBoundary(s, i + Len(lit))

\* \b(lit.*)\b matches somewhere in s: "." takes no newline
WordPrefixMatch(s, lit) ==
    \E i \in 1..(Len(s) - Len(lit) + 1) :
        /\ LitAt(s, i, lit)
        /\ WordBoundary(s, i)
        /\ \E j \in (i + Len(lit))..(Len(s) + 1) :
              /\ WordBoundary(s, j)
              /\ \A m \in (i + Len(lit))..(j - 1) : s[m] # "\n"

FeatureWords ==
    { <<"f","e","a","t","u","r","e">>,
      <<"r","e","q","u","e","s","t">>,
      <<"e","n","h","a","n","c","e","m","e","n","t">>,
      <<"w","o","u","l","d"," ","l","i","k","e">>,
      <<"n","i","c","e"," ","t","o"," ","h","a","v","e">>,
      <<"r","o","a","d","m","a","p">> }

SupportWord == <<"s","u","p","p","o","r","t">>

IssueWords ==
    { <<"b","u","g">>,
      <<"e","r","r","o","r">>,
      <<"f","a","i","l">>,
      <<"f","a","i","l","i","n","g">>,
      <<"b","r","o","k","e","n">>,
      <<"c","r","a","s","h">>,
      <<"i","n","c","i","d","e","n","t">>,
      <<"d","o","w","n","t","i","m","e">>,
      <<"n","o","t"," ","w","o","r","k","i","n","g">>,
      <<"f","i","x">> }

\* RE_FEATURE.search(text) on an already lowercased text
RE_FEATURE(text) ==
    \/ \E w \in FeatureWords : WordMatch(text, w)
    \/ WordPrefixMatch(text, SupportWord)

\* RE_ISSUE.search(text) on an already lowercased text
RE_ISSUE(text) == \E w \in IssueWords : WordMatch(text, w)

\* f"{title} {content} {labels_csv} {status}".lower()
TypeText(title, content, labels_csv, status) ==
    Lower(title \o <<" ">> \o content \o <<" ">> \o labels_csv \o <<" ">> \o status)

\* the tie-breaker by source norms
SourceDefault(source) ==
    IF source = "jira" THEN "issue"
    ELSE IF source = "zendesk" THEN "feature_request"
    ELSE "unknown"

\* A variant that lets the source default of a helpdesk ticket win over the
\* issue vocabulary.
classify_ticket_SourceFirst(source, title, content, labels_csv, status) ==
    LET text == TypeText(title, content, labels_csv, status)
    IN  IF RE_FEATURE(text) /\ ~RE_ISSUE(text) THEN "feature_request"
        ELSE IF source = "zendesk" THEN "feature_request"
        ELSE IF RE_ISSUE(text) /\ ~RE_FEATURE(text) THEN "issue"
        ELSE SourceDefault(source)

\* A variant with a fourth type for a text of both vocabularies.
classify_ticket_Mixed(source, title, content, labels_csv, status) ==
    LET text == TypeText(title, content, labels_csv, status)
    IN  IF RE_FEATURE(text) /\ RE_ISSUE(text) THEN "mixed"
        ELSE IF RE_FEATURE(text) THEN "feature_request"
        ELSE IF RE_ISSUE(text) THEN "issue"
        ELSE SourceDefault(source)

classify_ticket(source, title, content, labels_csv, status) ==
    LET text == TypeText(title, content, labels_csv, status)
    IN  IF RE_FEATURE(text) /\ ~RE_ISSUE(text) THEN "feature_request"
        ELSE IF RE_ISSUE(text) /\ ~RE_FEATURE(text) THEN "issue"
        ELSE SourceDefault(source)

(***************************************************************************)
(* nlp/product_verticals.py                                                *)
(*                                                                         *)
(* A confidence c of the code is the integer 15000 * c here, and a cosine  *)
(* similarity is given in hundredths, so that 0.65 * sim + 0.35 * kw_norm  *)
(* and 0.55 + 0.4 * raw are computed exactly: with s = 100 * sim and       *)
(* n = min(count, 3), 6000 * combined = 39 * s + 700 * n and               *)
(* 15000 * conf = 8250 + 6000 * combined.                                  *)
(***************************************************************************)
VERTICALS == <<
    [ slug |-> "multicurrency-accounts-wallets",
      slug_chars |-> <<"m","u","l","t","i","c","u","r","r","e","n","c","y","-","a","c","c","o","u","n","t","s","-","w","a","l","l","e","t","s">>,
      name |-> "Multicurrency Accounts and Wallets",
      name_chars |-> <<"M","u","l","t","i","c","u","r","r","e","n","c","y"," ","A","c","c","o","u","n","t","s"," ","a","n","d"," ","W","a","l","l","e","t","s">>,
      keywords |-> <<<<"w","a","l","l","e","t">>, <<"v","i","r","t","u","a","l"," ","a","c","c","o","u","n","t">>, <<"m","u","l","t","i","-","c","u","r","r","e","n","c","y">>, <<"m","u","l","t","i","c","u","r","r","e","n","c","y">>, <<"l","e","d","g","e","r"," ","b","a","l","a","n","c","e">>, <<"i","b","a","n">>, <<"a","c","c","o","u","n","t"," ","n","u","m","b","e","r">>>>,
      jira_projects |-> <<>>,
      jira_labels |-> <<>>,
      zendesk_tags |-> <<>> ],
    [ slug |-> "fee-engine-invoicing",
      slug_chars |-> <<"f","e","e","-","e","n","g","i","n","e","-","i","n","v","o","i","c","i","n","g">>,
      name |-> "Fee Engine and Invoicing",
      name_chars |-> <<"F","e","e"," ","E","n","g","i","n","e"," ","a","n","d"," ","I","n","v","o","i","c","i","n","g">>,
      keywords |-> <<<<"f","e","e">>, <<"f","e","e","s">>, <<"p","r","i","c","i","n","g">>, <<"i","n","v","o","i","c","e">>, <<"i","n","v","o","i","c","i","n","g">>, <<"s","u","r","c","h","a","r","g","e">>, <<"r","a","t","e"," ","c","a","r","d">>>>,
      jira_projects |-> <<>>,
      jira_labels |-> <<<<"i","n","v","o","i","c","e">>, <<"p","r","i","c","i","n","g">>>>,
      zendesk_tags |-> <<<<"i","n","v","o","i","c","e">>, <<"p","r","i","c","i","n","g">>, <<"f","e","e","s">>>> ],
    [ slug |-> "payins-direct-debits",
      slug_chars |-> <<"p","a","y","i","n","s","-","d","i","r","e","c","t","-","d","e","b","i","t","s">>,
      name |-> "Payins and Direct Debits",
      name_chars |-> <<"P","a","y","i","n","s"," ","a","n","d"," ","D","i","r","e","c","t"," ","D","e","b","i","t","s">>,
      keywords |-> <<<<"p","a","y","-","i","n">>, <<"p","a","y","i","n">>, <<"d","i","r","e","c","t"," ","d","e","b","i","t">>, <<"a","c","h"," ","d","e","b","i","t">>, <<"s","e","p","a"," ","d","d">>, <<"p","u","l","l"," ","f","u","n","d","s">>, <<"b","a","n","k"," ","t","r","a","n","s","f","e","r"," ","i","n">>, <<"i","n","c","o","m","i","n","g"," ","p","a","y","m","e","n","t">>>>,
      jira_projects |-> <<>>,
      jira_labels |-> <<<<"d","i","r","e","c","t","-","d","e","b","i","t">>, <<"p","a","y","i","n">>>>,
      zendesk_tags |-> <<<<"d","i","r","e","c","t","_","d","e","b","i","t">>, <<"p","a","y","i","n">>>> ],
    [ slug |-> "fx-service",
      slug_chars |-> <<"f","x","-","s","e","r","v","i","c","e">>,
      name |-> "FX Service",
      name_chars |-> <<"F","X"," ","S","e","r","v","i","c","e">>,
      keywords |-> <<<<"f","x">>, <<"c","o","n","v","e","r","t">>, <<"c","o","n","v","e","r","s","i","o","n">>, <<"q","u","o","t","e">>, <<"r","a","t","e">>, <<"s","w","a","p">>, <<"o","r","d","e","r">>, <<"f","x"," ","r","a","t","e">>, <<"f","x"," ","q","u","o","t","e">>>>,
      jira_projects |-> <<<<"F","X">>>>,
      jira_labels |-> <<<<"f","x">>, <<"r","a","t","e","s">>, <<"q","u","o","t","e">>>>,
      zendesk_tags |-> <<<<"f","x">>, <<"r","a","t","e">>, <<"q","u","o","t","e">>>> ],
    [ slug |-> "treasury-management-gl",
      slug_chars |-> <<"t","r","e","a","s","u","r","y","-","m","a","n","a","g","e","m","e","n","t","-","g","l">>,
      name |-> "Treasury Management and GL Spoc",
      name_chars |-> <<"T","r","e","a","s","u","r","y"," ","M","a","n","a","g","e","m","e","n","t"," ","a","n","d"," ","G","L"," ","S","p","o","c">>,
      keywords |-> <<<<"t","r","e","a","s","u","r","y">>, <<"l","i","q","u","i","d","i","t","y">>, <<"g","l">>, <<"g","e","n","e","r","a","l"," ","l","e","d","g","e","r">>, <<"r","e","c","o","n","c","i","l","i","a","t","i","o","n">>, <<"n","o","s","t","r","o">>, <<"c","a","s","h"," ","m","a","n","a","g","e","m","e","n","t">>>>,
      jira_projects |-> <<>>,
      jira_labels |-> <<<<"t","r","e","a","s","u","r","y">>, <<"r","e","c","o","n">>, <<"g","l">>>>,
      zendesk_tags |-> <<<<"t","r","e","a","s","u","r","y">>, <<"r","e","c","o","n","c","i","l","i","a","t","i","o","n">>>> ],
    [ slug |-> "payouts-reliability-api",
      slug_chars |-> <<"p","a","y","o","u","t","s","-","r","e","l","i","a","b","i","l","i","t","y","-","a","p","i">>,
      name |-> "Payouts Reliability and API Experience",
      name_chars |-> <<"P","a","y","o","u","t","s"," ","R","e","l","i","a","b","i","l","i","t","y"," ","a","n","d"," ","A","P","I"," ","E","x","p","e","r","i","e","n","c","e">>,
      keywords |-> <<<<"p","a","y","o","u","t">>, <<"p","a","y","o","u","t","s"," ","a","p","i">>, <<"s","t","p">>, <<"w","e","b","h","o","o","k">>, <<"i","d","e","m","p","o","t","e","n","c","y">>, <<"b","e","n","e","f","i","c","i","a","r","y">>, <<"t","r","a","n","s","f","e","r"," ","a","p","i">>, <<"p","a","y","m","e","n","t"," ","a","p","i">>>>,
      jira_projects |-> <<>>,
      jira_labels |-> <<<<"p","a","y","o","u","t","s","_","a","p","i">>, <<"s","t","p">>>>,
      zendesk_tags |-> <<<<"p","a","y","o","u","t","s">>, <<"a","p","i">>>> ],
    [ slug |-> "swift-connect",
      slug_chars |-> <<"s","w","i","f","t","-","c","o","n","n","e","c","t">>,
      name |-> "Swift Connect",
      name_chars |-> <<"S","w","i","f","t"," ","C","o","n","n","e","c","t">>,
      keywords |-> <<<<"s","w","i","f","t">>, <<"m","t","1","0","3">>, <<"b","i","c">>, <<"g","p","i">>, <<"m","t","2","0","2">>>>,
      jira_projects |-> <<<<"S","W","I","F","T">>>>,
      jira_labels |-> <<<<"s","w","i","f","t">>, <<"m","t","1","0","3">>, <<"b","i","c">>>>,
      zendesk_tags |-> <<<<"s","w","i","f","t">>>> ],
    [ slug |-> "network-payouts",
      slug_chars |-> <<"n","e","t","w","o","r","k","-","p","a","y","o","u","t","s">>,
      name |-> "Network Payouts",
      name_chars |-> <<"N","e","t","w","o","r","k"," ","P","a","y","o","u","t","s">>,
      keywords |-> <<<<"l","o","c","a","l"," ","r","a","i","l","s">>, <<"u","p","i">>, <<"f","p","s">>, <<"a","c","h"," ","c","r","e","d","i","t">>, <<"p","i","x">>, <<"d","o","m","e","s","t","i","c"," ","p","a","y","o","u","t">>, <<"l","o","c","a","l"," ","t","r","a","n","s","f","e","r">>>>,
      jira_projects |-> <<>>,
      jira_labels |-> <<<<"l","o","c","a","l","-","r","a","i","l","s">>, <<"a","c","h">>, <<"p","i","x">>, <<"u","p","i">>, <<"f","p","s">>>>,
      zendesk_tags |-> <<<<"a","c","h">>, <<"p","i","x">>, <<"u","p","i">>, <<"f","p","s">>>> ],
    [ slug |-> "global-wires",
      slug_chars |-> <<"g","l","o","b","a","l","-","w","i","r","e","s">>,
      name |-> "Global wires",
      name_chars |-> <<"G","l","o","b","a","l"," ","w","i","r","e","s">>,
      keywords |-> <<<<"w","i","r","e">>, <<"w","i","r","e"," ","t","r","a","n","s","f","e","r">>, <<"i","n","t","e","r","n","a","t","i","o","n","a","l"," ","w","i","r","e">>, <<"c","r","o","s","s","-","b","o","r","d","e","r"," ","w","i","r","e">>, <<"s","w","i","f","t"," ","w","i","r","e">>>>,
      jira_projects |-> <<<<"W","I","R","E","S">>>>,
      jira_labels |-> <<<<"w","i","r","e">>>>,
      zendesk_tags |-> <<<<"w","i","r","e">>>> ],
    [ slug |-> "verify",
      slug_chars |-> <<"v","e","r","i","f","y">>,
      name |-> "Verify",
      name_chars |-> <<"V","e","r","i","f","y">>,
      keywords |-> <<<<"v","e","r","i","f","y">>, <<"a","c","c","o","u","n","t"," ","v","e","r","i","f","i","c","a","t","i","o","n">>, <<"n","a","m","e"," ","m","a","t","c","h">>, <<"b","e","n","e","f","i","c","i","a","r","y"," ","c","h","e","c","k">>, <<"a","c","c","o","u","n","t"," ","c","h","e","c","k">>>>,
      jira_projects |-> <<<<"V","E","R","I","F","Y">>>>,
      jira_labels |-> <<<<"v","e","r","i","f","y">>>>,
      zendesk_tags |-> <<<<"v","e","r","i","f","y">>>> ],
    [ slug |-> "client-onboarding",
      slug_chars |-> <<"c","l","i","e","n","t","-","o","n","b","o","a","r","d","i","n","g">>,
      name |-> "Client Onboarding",
      name_chars |-> <<"C","l","i","e","n","t"," ","O","n","b","o","a","r","d","i","n","g">>,
      keywords |-> <<<<"k","y","b">>, <<"c","l","i","e","n","t"," ","o","n","b","o","a","r","d","i","n","g">>, <<"e","n","t","i","t","l","e","m","e","n","t","s">>, <<"g","o","-","l","i","v","e">>, <<"c","o","n","t","r","a","c","t","i","n","g">>>>,
      jira_projects |-> <<<<"C","L","I","E","N","T">>>>,
      jira_labels |-> <<<<"o","n","b","o","a","r","d","i","n","g">>, <<"k","y","b">>>>,
      zendesk_tags |-> <<<<"k","y","b">>>> ],
    [ slug |-> "customer-onboarding",
      slug_chars |-> <<"c","u","s","t","o","m","e","r","-","o","n","b","o","a","r","d","i","n","g">>,
      name |-> "Customer Onboarding",
      name_chars |-> <<"C","u","s","t","o","m","e","r"," ","O","n","b","o","a","r","d","i","n","g">>,
      keywords |-> <<<<"k","y","c">>, <<"i","d","e","n","t","i","t","y">>, <<"c","u","s","t","o","m","e","r"," ","v","e","r","i","f","i","c","a","t","i","o","n">>, <<"l","e","v","e","l"," ","2">>, <<"l","e","v","e","l"," ","3">>, <<"l","2">>, <<"l","3">>>>,
      jira_projects |-> <<<<"C","U","S","T","O","M","E","R">>>>,
      jira_labels |-> <<<<"o","n","b","o","a","r","d","i","n","g">>, <<"k","y","c">>>>,
      zendesk_tags |-> <<<<"k","y","c">>>> ],
    [ slug |-> "caas",
      slug_chars |-> <<"c","a","a","s">>,
      name |-> "CaaS",
      name_chars |-> <<"C","a","a","S">>,
      keywords |-> <<<<"c","o","m","p","l","i","a","n","c","e">>, <<"s","c","r","e","e","n","i","n","g">>, <<"t","r","a","n","s","a","c","t","i","o","n"," ","m","o","n","i","t","o","r","i","n","g">>, <<"c","d","d">>, <<"a","m","l">>>>,
      jira_projects |-> <<<<"C","A","A","S">>>>,
      jira_labels |-> <<<<"c","o","m","p","l","i","a","n","c","e">>, <<"s","c","r","e","e","n","i","n","g">>, <<"m","o","n","i","t","o","r","i","n","g">>>>,
      zendesk_tags |-> <<<<"c","o","m","p","l","i","a","n","c","e">>>> ],
    [ slug |-> "data-reporting",
      slug_chars |-> <<"d","a","t","a","-","r","e","p","o","r","t","i","n","g">>,
      name |-> "Data and Reporting",
      name_chars |-> <<"D","a","t","a"," ","a","n","d"," ","R","e","p","o","r","t","i","n","g">>,
      keywords |-> <<<<"r","e","p","o","r","t">>, <<"b","i">>, <<"d","a","s","h","b","o","a","r","d">>, <<"e","x","p","o","r","t">>, <<"l","o","o","k","e","r">>, <<"a","n","a","l","y","t","i","c","s">>>>,
      jira_projects |-> <<>>,
      jira_labels |-> <<<<"r","e","p","o","r","t">>, <<"e","x","p","o","r","t">>>>,
      zendesk_tags |-> <<<<"r","e","p","o","r","t">>, <<"e","x","p","o","r","t">>>> ],
    [ slug |-> "b2b-travel",
      slug_chars |-> <<"b","2","b","-","t","r","a","v","e","l">>,
      name |-> "B2B Travel",
      name_chars |-> <<"B","2","B"," ","T","r","a","v","e","l">>,
      keywords |-> <<<<"v","c","c">>, <<"v","i","r","t","u","a","l"," ","c","a","r","d">>, <<"o","t","a">>, <<"g","d","s">>, <<"s","e","t","t","l","e","m","e","n","t">>, <<"t","r","a","v","e","l">>>>,
      jira_projects |-> <<<<"T","R","A","V","E","L">>>>,
      jira_labels |-> <<<<"v","c","c">>, <<"t","r","a","v","e","l">>>>,
      zendesk_tags |-> <<<<"t","r","a","v","e","l">>>> ],
    [ slug |-> "platform-issuing",
      slug_chars |-> <<"p","l","a","t","f","o","r","m","-","i","s","s","u","i","n","g">>,
      name |-> "Platform Issuing",
      name_chars |-> <<"P","l","a","t","f","o","r","m"," ","I","s","s","u","i","n","g">>,
      keywords |-> <<<<"i","s","s","u","i","n","g">>, <<"c","a","r","d","s">>, <<"c","a","r","d">>, <<"p","a","n">>, <<"t","o","k","e","n","i","z","a","t","i","o","n">>, <<"a","u","t","h","o","r","i","z","a","t","i","o","n">>, <<"a","u","t","h">>, <<"i","s","s","u","e","r">>>>,
      jira_projects |-> <<<<"I","S","S","U","I","N","G">>>>,
      jira_labels |-> <<<<"c","a","r","d","s">>, <<"i","s","s","u","i","n","g">>>>,
      zendesk_tags |-> <<<<"i","s","s","u","i","n","g">>, <<"c","a","r","d">>>> ],
    [ slug |-> "api-docs",
      slug_chars |-> <<"a","p","i","-","d","o","c","s">>,
      name |-> "API and API Docs",
      name_chars |-> <<"A","P","I"," ","a","n","d"," ","A","P","I"," ","D","o","c","s">>,
      keywords |-> <<<<"o","p","e","n","a","p","i">>, <<"s","w","a","g","g","e","r">>, <<"d","o","c","s">>, <<"d","o","c","u","m","e","n","t","a","t","i","o","n">>, <<"a","p","i"," ","r","e","f","e","r","e","n","c","e">>, <<"r","e","f","e","r","e","n","c","e"," ","g","u","i","d","e">>>>,
      jira_projects |-> <<<<"D","O","C","S">>>>,
      jira_labels |-> <<<<"d","o","c","s">>, <<"o","p","e","n","a","p","i">>>>,
      zendesk_tags |-> <<<<"d","o","c","s">>>> ],
    [ slug |-> "client-portal",
      slug_chars |-> <<"c","l","i","e","n","t","-","p","o","r","t","a","l">>,
      name |-> "Client Portal",
      name_chars |-> <<"C","l","i","e","n","t"," ","P","o","r","t","a","l">>,
      keywords |-> <<<<"p","o","r","t","a","l">>, <<"d","a","s","h","b","o","a","r","d"," ","u","i">>, <<"n","o","n","-","a","p","i">>, <<"w","e","b"," ","a","p","p">>, <<"c","l","i","e","n","t"," ","p","o","r","t","a","l">>>>,
      jira_projects |-> <<<<"P","O","R","T","A","L">>>>,
      jira_labels |-> <<<<"p","o","r","t","a","l">>>>,
      zendesk_tags |-> <<<<"p","o","r","t","a","l">>>> ] >>

Slugs == {VERTICALS[i].slug : i \in 1..Len(VERTICALS)}

horizontal == {"api-docs", "client-portal", "data-reporting"}

\* 15000 * 0.95, the confidence of a Jira project match
CONF_PROJECT == 14250

\* 15000 * 0.9, the confidence of a label or tag match
CONF_LABEL == 13500

\* 15000 * 0.5 and 15000 * 0.95, the clamp of the ensemble's confidence
CONF_FLOOR == 7500

CONF_CEIL == 14250

\* 15000 * 0.55, the offset of the ensemble's confidence
CONF_BASE == 8250

\* 6000 * 0.65 / 100: the weight of one hundredth of similarity
W_SIM == 39

\* 6000 * 0.35 / 3: the weight of one keyword hit, of at most KW_CAP
W_KW == 700

KW_CAP == 3

\* s.split(sep) for a one-character separator: the pieces, empty ones too
RECURSIVE SplitFrom(_, _, _)
SplitFrom(s, sep, p) ==
    LET hits == {i \in p..Len(s) : s[i] = sep}
    IN  IF hits = {} THEN <<SubSeq(s, p, Len(s))>>
        ELSE LET i == CHOOSE h \in hits : \A j \in hits : h <= j
             IN  <<SubSeq(s, p, i - 1)>> \o SplitFrom(s, sep, i + 1)

Split(s, sep) == SplitFrom(s, sep, 1)

\* {p.strip().lower() for p in labels_csv.split(",") if p.strip()}
LabelSet(labels_csv) ==
    {Lower(Strip(p)) : p \in {q \in Range(Split(labels_csv, ",")) : Strip(q) # <<>>}}

\* (project or "").strip().upper()
ProjectKey(project) == Upper(Strip(project))

\* What one catalog vertical adds to the candidates of rule_based_vertical.
RuleCandidates(v, source, labels, project_key) ==
    IF /\ source = "jira"
       /\ project_key # <<>>
       /\ project_key \in {Upper(p) : p \in Range(v.jira_projects)}
    THEN << [slug |-> v.slug, name |-> v.name, conf |-> CONF_PROJECT,
             exp |-> [source |-> "", rule |-> "jira_project", reason |-> ""]] >>
    ELSE (IF /\ source = "jira"
             /\ labels # {}
             /\ \E l \in Range(v.jira_labels) : Lower(l) \in labels
          THEN << [slug |-> v.slug, name |-> v.name, conf |-> CONF_LABEL,
                   exp |-> [source |-> "", rule |-> "jira_label", reason |-> ""]] >>
          ELSE <<>>)
         \o
         (IF /\ source = "zendesk"
             /\ labels # {}
             /\ \E t \in Range(v.zendesk_tags) : Lower(t) \in labels
          THEN << [slug |-> v.slug, name |-> v.name, conf |-> CONF_LABEL,
                   exp |-> [source |-> "", rule |-> "zendesk_tag", reason |-> ""]] >>
          ELSE <<>>)

RECURSIVE AllRuleCandidates(_, _, _, _)
AllRuleCandidates(i, source, labels, project_key) ==
    IF i > Len(VERTICALS) THEN <<>>
    ELSE RuleCandidates(VERTICALS[i], source, labels, project_key)
            \o AllRuleCandidates(i + 1, source, labels, project_key)

\* A variant of the sort key that compares the confidences only.
KeyLess_ConfOnly(c1, s1, c2, s2) == c1 < c2

\* the sort key (x[2], 0 if x[0] in horizontal else 1), compared as Python
\* compares tuples
KeyLess(c1, s1, c2, s2) ==
    LET h1 == IF s1 \in horizontal THEN 0 ELSE 1
        h2 == IF s2 \in horizontal THEN 0 ELSE 1
    IN  c1 < c2 \/ (c1 = c2 /\ h1 < h2)

NoRuleMatch ==
    [slug |-> NoStr, name |-> NoStr, conf |-> 0,
     exp |-> [source |-> "", rule |-> "", reason |-> "no_rule_match"]]

\* candidates.sort(key=...); best = candidates[-1]: the sort is stable, so
\* the last element is the last candidate, in catalog order, of the largest key
LastOfSorted(cands) ==
    cands[CHOOSE i \in 1..Len(cands) :
            /\ \A j \in 1..Len(cands) :
                  ~KeyLess(cands[i].conf, cands[i].slug, cands[j].conf, cands[j].slug)
            /\ \A j \in (i + 1)..Len(cands) :
                  KeyLess(cands[j].conf, cands[j].slug, cands[i].conf, cands[i].slug)]

rule_based_vertical(source, labels_csv, project) ==
    LET candidates == AllRuleCandidates(1, source, LabelSet(labels_csv),
                                        ProjectKey(project))
    IN  IF candidates = <<>> THEN NoRuleMatch ELSE LastOfSorted(candidates)

\* f"{title} \n {content} \n {labels_csv} \n {project} \n {source}".lower()
SourceChars(source) ==
    CASE source = "jira" -> <<"j","i","r","a">>
      [] source = "zendesk" -> <<"z","e","n","d","e","s","k">>
      [] source = "slack" -> <<"s","l","a","c","k">>
      [] OTHER -> <<>>

Sep == <<" ", "\n", " ">>

VerticalText(source, title, content, labels_csv, project) ==
    Lower(title \o Sep \o content \o Sep \o labels_csv \o Sep \o project
            \o Sep \o SourceChars(source))

\* kw.lower() for every keyword of every catalog vertical
KeywordsLower ==
    Tabulate([i \in 1..Len(VERTICALS) |->
        Tabulate([k \in 1..Len(VERTICALS[i].keywords) |->
                    Lower(VERTICALS[i].keywords[k])])])

\* the number of entries kw of the keyword list of VERTICALS[i] with
\* kw and kw.lower() in text_lc
KwCount(i, text_lc) ==
    Cardinality({k \in 1..Len(VERTICALS[i].keywords) :
                    /\ VERTICALS[i].keywords[k] # <<>>
                    /\ Contains(text_lc, KeywordsLower[i][k])})

\* 6000 * combined[slug] for the slug of VERTICALS[i], sim being the
\* similarity (in hundredths) to its prototype
Combined(i, text_lc, sim) == W_SIM * sim + W_KW * Min2(KwCount(i, text_lc), KW_CAP)

\* max(0.5, min(0.95, 0.55 + 0.4 * raw)), times 15000
EnsembleConf(raw) == Max2(CONF_FLOOR, Min2(CONF_CEIL, CONF_BASE + raw))

\* max(combined.keys(), key=...): the first slug, in catalog order, of the
\* largest key
BestIndex(score) ==
    CHOOSE i \in 1..Len(VERTICALS) :
        /\ \A j \in 1..Len(VERTICALS) :
              ~KeyLess(score[i], VERTICALS[i].slug, score[j], VERTICALS[j].slug)
        /\ \A j \in 1..(i - 1) :
              KeyLess(score[j], VERTICALS[j].slug, score[i], VERTICALS[i].slug)

\* Stage B: the keyword and embedding ensemble.  sims[i] is the similarity,
\* in hundredths, that the embedding model gives the text and the prototype
\* of VERTICALS[i].
ensemble_vertical(source, title, content, labels_csv, project, sims) ==
    LET text_lc == VerticalText(source, title, content, labels_csv, project)
        score == [i \in 1..Len(VERTICALS) |-> Combined(i, text_lc, sims[i])]
    IN  IF Len(VERTICALS) = 0
        THEN [slug |-> NoStr, name |-> NoStr, conf |-> 0,
              exp |-> [source |-> "", rule |-> "", reason |-> "no_signal"]]
        ELSE LET b == BestIndex(score)
             IN  [slug |-> VERTICALS[b].slug, name |-> VERTICALS[b].name,
                  conf |-> EnsembleConf(score[b]),
                  exp |-> [source |-> "", rule |-> "", reason |-> ""]]

\* A variant that looks at the ensemble first and takes its result when it
\* is at least as confident as a label match.
classify_product_vertical_EnsembleFirst(source, title, content, labels_csv, project, sims) ==
    LET e == ensemble_vertical(source, title, content, labels_csv, project, sims)
        r == rule_based_vertical(source, labels_csv, project)
    IN  IF e.conf >= CONF_LABEL \/ r.slug = NoStr THEN e ELSE r

\* A variant that asks the ensemble alone.
classify_product_vertical_EnsembleOnly(source, title, content, labels_csv, project, sims) ==
    ensemble_vertical(source, title, content, labels_csv, project, sims)

classify_product_vertical(source, title, content, labels_csv, project, sims) ==
    LET r == rule_based_vertical(source, labels_csv, project)
    IN  IF r.slug # NoStr THEN r
        ELSE ensemble_vertical(source, title, content, labels_csv, project, sims)

(***************************************************************************)
(* The text normalizer on its own: clean_text applied once, then again to  *)
(* its own result.  The inputs are every concatenation of up to MaxPieces  *)
(* pieces (letters, whitespace, fences, URLs) and strings that reach past  *)
(* the clip.                                                               *)
(***************************************************************************)
MaxPieces == 3

CleanPieces ==
    << <<"a">>,
       <<" ">>,
       <<"\n">>,
       <<"b"," ","c">>,
       <<Tick,Tick,Tick>>,
       <<Tick>>,
       <<"h","t","t","p",":","/","/","u">>,
       <<"h","t","t","p","s",":","/","/","v">>,
       <<"x">>,
       <<"\t">> >>

RECURSIVE Concat(_)
Concat(ps) == IF ps = <<>> THEN <<>> ELSE Head(ps) \o Concat(Tail(ps))

ShortInputs ==
    UNION { { Concat([i \in 1..n |-> CleanPieces[f[i]]]) :
                f \in [1..n -> 1..Len(CleanPieces)] } : n \in 0..MaxPieces }

Filler(n) == [i \in 1..n |-> "a"]

LongInputs ==
    { Filler(CLIP - 1) \o <<" ", "b">>,
      Filler(CLIP - 1) \o <<"b", "c">>,
      Filler(CLIP - 2) \o <<" ", " ", "b", "c">>,
      Filler(CLIP) \o <<" ">>,
      <<" ">> \o Filler(CLIP) }

CleanInputs == ShortInputs \cup LongInputs

\* source_updated_at IS NULL
NoAge == -1

TicketPool == <<
    [ source |-> "jira",
      title |-> <<"F","X"," ","r","a","t","e"," ","b","u","g">>,
      content |-> <<"q","u","o","t","e"," ","i","s"," ","b","r","o","k","e","n">>,
      labels |-> <<>>,
      status |-> <<"o","p","e","n">>,
      project |-> <<"F","X">>,
      is_internal |-> "null",
      age |-> 5,
      top |-> 1,
      hi |-> 90,
      lo |-> 10 ],
    [ source |-> "zendesk",
      title |-> <<"W","o","u","l","d"," ","l","i","k","e"," ","d","o","c","s">>,
      content |-> <<>>,
      labels |-> <<"D","o","c","s",","," ","b","i","l","l","i","n","g">>,
      status |-> <<>>,
      project |-> <<>>,
      is_internal |-> "false",
      age |-> NoAge,
      top |-> 17,
      hi |-> 50,
      lo |-> 10 ],
    [ source |-> "slack",
      title |-> <<"w","a","l","l","e","t"," ","i","b","a","n"," ","m","i","s","s","i","n","g">>,
      content |-> <<"s","e","e"," ","h","t","t","p","s",":","/","/","x",".","i","o","/","a">>,
      labels |-> <<"s","l","a","c","k">>,
      status |-> <<>>,
      project |-> <<>>,
      is_internal |-> "false",
      age |-> 45,
      top |-> 1,
      hi |-> 90,
      lo |-> 10 ],
    [ source |-> "zendesk",
      title |-> <<"l","o","g","i","n"," ","e","r","r","o","r">>,
      content |-> <<>>,
      labels |-> <<>>,
      status |-> <<"o","p","e","n">>,
      project |-> <<>>,
      is_internal |-> "true",
      age |-> 5,
      top |-> 4,
      hi |-> 50,
      lo |-> 10 ] >>

Payload(t) == TicketPool[t.p]

\* SYNC_HISTORY_DAYS
HISTORY_DAYS == 30

Sources == {"zendesk", "jira", "slack"}

\* a source without a SyncState row, or with last_updated_at NULL
NoWatermark == -1

\* the later of two times, each given by its age in days
RECURSIVE LatestOf(_, _)
LatestOf(ages, latest) ==
    IF ages = <<>> THEN latest
    ELSE LatestOf(Tail(ages),
                  IF Head(ages) # NoAge /\ Head(ages) < latest THEN Head(ages)
                  ELSE latest)

\* SyncState.last_updated_at of a source after the sync runs that brought
\* the tickets ts
Watermark(ts, source) ==
    LET mine == SelectSeq(ts, LAMBDA t : Payload(t).source = source)
    IN  IF mine = <<>> THEN NoWatermark
        ELSE LatestOf([i \in 1..Len(mine) |-> Payload(mine[i]).age], HISTORY_DAYS)

\* The parts of the state a specification does not use stay as they start.
CleanIdle == ct_in = None /\ ct_once = None /\ ct_twice = None

TypeIdle == ty_in = None /\ ty_out = None

StoreIdle ==
    /\ tickets = <<>>
    /\ tpv = {}
    /\ gold = {}
    /\ emb = {}
    /\ theme_rows = 0
    /\ result = [op |-> "none"]

VertIdle == pv_in = None /\ pv_out = None

SuggestIdle == sg_in = None /\ sg_out = None

RaceIdle == runs = None

LoadIdle == singletons = None /\ threads = None

\* the cache is empty when the process starts
CacheIdle == cache = <<>> /\ now = 0 /\ data_version = 0

\* the sync runs have left their watermarks
SyncIdle == sync_state = [s \in Sources |-> Watermark(tickets, s)]

FilterIdle == filtered = None

ReviewIdle == sl_in = None

ExtIdle == SuggestIdle /\ RaceIdle /\ LoadIdle /\ CacheIdle /\ SyncIdle /\ FilterIdle
             /\ ReviewIdle

InitClean ==
    /\ ct_in \in CleanInputs
    /\ ct_once = None
    /\ ct_twice = None
    /\ TypeIdle
    /\ VertIdle
    /\ StoreIdle
    /\ ExtIdle

CleanOnce ==
    /\ ct_once = None
    /\ ct_once' = Some(clean_text(ct_in))
    /\ UNCHANGED <<ct_in, ct_twice, typeVars, vertVars, storeVars, extVars>>

CleanTwice ==
    /\ ct_once # None
    /\ ct_twice = None
    /\ ct_twice' = Some(clean_text(ct_once[1]))
    /\ UNCHANGED <<ct_in, ct_once, typeVars, vertVars, storeVars, extVars>>

NextClean == CleanOnce \/ CleanTwice

SpecClean == InitClean /\ [][NextClean]_vars

\* C6: clean_text is idempotent: for every input s, also one longer than the
\* clip, clean_text(clean_text(s)) = clean_text(s).
C6_CleanIdempotent == ct_twice # None => ct_twice = ct_once

(***************************************************************************)
(* The type classifier on its own.                                         *)
(***************************************************************************)
TypeSources == {"jira", "zendesk", "slack"}

TypeTexts ==
    { <<"b","u","g">>,
      <<"b","u","g","s">>,
      <<"d","e","b","u","g">>,
      <<"B","u","g">>,
      <<"f","e","a","t","u","r","e">>,
      <<"r","e","q","u","e","s","t">>,
      <<"s","u","p","p","o","r","t">>,
      <<"s","u","p","p","o","r","t","e","d">>,
      <<"u","n","s","u","p","p","o","r","t","e","d">>,
      <<"f","i","x">>,
      <<"e","r","r","o","r">>,
      <<"f","a","i","l","i","n","g">>,
      <<"w","o","u","l","d"," ","l","i","k","e">>,
      <<"l","o","g","i","n">>,
      <<"s","u","p","p","o","r","t","\n","b","u","g">> }

TypeLabels == { <<>>, <<"b","u","g">>, <<"u","i">> }

TypeStatuses == { <<>>, <<"o","p","e","n">> }

InitType ==
    /\ ty_in \in [source : TypeSources, title : TypeTexts,
                  content : TypeTexts \cup {<<>>},
                  labels_csv : TypeLabels, status : TypeStatuses]
    /\ ty_out = None
    /\ CleanIdle
    /\ VertIdle
    /\ StoreIdle
    /\ ExtIdle

ClassifyType ==
    /\ ty_out = None
    /\ ty_out' = Some(classify_ticket(ty_in.source, ty_in.title, ty_in.content,
                                 ty_in.labels_csv, ty_in.status))
    /\ UNCHANGED <<ty_in, cleanVars, vertVars, storeVars, extVars>>

NextType == ClassifyType

SpecType == InitType /\ [][NextType]_vars

(***************************************************************************)
(* The vertical classifier on its own.  The similarities the embedding     *)
(* model gives a text are an input: top is the catalog index of the        *)
(* prototype nearest to the text, hi its similarity and lo the similarity  *)
(* of every other prototype, in hundredths.                                *)
(***************************************************************************)
VertProjects ==
    { <<>>,
      <<"F","X">>,
      <<" ","d","o","c","s"," ">>,
      <<"f","x">>,
      <<"O","P","S">> }

VertLabels ==
    { <<>>,
      <<"o","n","b","o","a","r","d","i","n","g">>,
      <<"d","o","c","s",","," ","r","e","p","o","r","t">>,
      <<"f","x",",","d","o","c","s">>,
      <<"W","i","r","e">>,
      <<"s","l","a","c","k">> }

VertTitles ==
    { <<"f","x"," ","r","a","t","e"," ","q","u","o","t","e">>,
      <<"w","a","l","l","e","t">>,
      <<"l","o","g","i","n"," ","e","r","r","o","r">>,
      <<"d","o","c","s"," ","p","o","r","t","a","l">> }

SimTops == {1, 4, 17}

SimHighs == {50, 90, 100}

SimLows == {-100, 10}

SimsOf(top, hi, lo) == [i \in 1..Len(VERTICALS) |-> IF i = top THEN hi ELSE lo]

InitVert ==
    /\ pv_in \in [source : TypeSources, title : VertTitles, content : {<<>>},
                  labels_csv : VertLabels, project : VertProjects,
                  top : SimTops, hi : SimHighs, lo : SimLows]
    /\ pv_out = None
    /\ CleanIdle
    /\ TypeIdle
    /\ StoreIdle
    /\ ExtIdle

ClassifyVertical ==
    /\ pv_out = None
    /\ pv_out' = Some(classify_product_vertical(
                        pv_in.source, pv_in.title, pv_in.content, pv_in.labels_csv,
                        pv_in.project, SimsOf(pv_in.top, pv_in.hi, pv_in.lo)))
    /\ UNCHANGED <<pv_in, cleanVars, typeVars, storeVars, extVars>>

NextVert == ClassifyVertical

SpecVert == InitVert /\ [][NextVert]_vars

\* The combined text as the claim reads it: title + content + labels + status.
ClaimText == TypeText(ty_in.title, ty_in.content, ty_in.labels_csv, ty_in.status)

Bug == <<"b","u","g">>

SupportAtWordStart(text) ==
    \E i \in 1..Len(text) :
        /\ LitAt(text, i, SupportWord)
        /\ (i = 1 \/ ~IsWordChar(text[i - 1]))

\* "bug" stands in the text as a whole word.
BugAsWord(text) ==
    \E i \in 1..Len(text) :
        /\ LitAt(text, i, Bug)
        /\ (i = 1 \/ ~IsWordChar(text[i - 1]))
        /\ (i + 3 > Len(text) \/ ~IsWordChar(text[i + 3]))

ClaimProjectKey == Upper(Strip(pv_in.project))

\* A Jira project key of the catalog matches the ticket of the request.
ClaimProjectMatch ==
    /\ pv_in.source = "jira"
    /\ ClaimProjectKey # <<>>
    /\ \E i \in 1..Len(VERTICALS) :
          \E j \in 1..Len(VERTICALS[i].jira_projects) :
              Upper(VERTICALS[i].jira_projects[j]) = ClaimProjectKey

\* A label of the ticket of the request is a Jira label or a helpdesk tag of
\* the catalog.
ClaimLabelMatch ==
    \E i \in 1..Len(VERTICALS) :
        \E lab \in LabelSet(pv_in.labels_csv) :
            \/ /\ pv_in.source = "jira"
               /\ \E j \in 1..Len(VERTICALS[i].jira_labels) :
                     Lower(VERTICALS[i].jira_labels[j]) = lab
            \/ /\ pv_in.source = "zendesk"
               /\ \E j \in 1..Len(VERTICALS[i].zendesk_tags) :
                     Lower(VERTICALS[i].zendesk_tags[j]) = lab

\* What the ensemble alone would answer to the request.
ClaimEnsemble ==
    ensemble_vertical(pv_in.source, pv_in.title, pv_in.content, pv_in.labels_csv,
                      pv_in.project, SimsOf(pv_in.top, pv_in.hi, pv_in.lo))

\* C5: when a Stage A rule matches (Jira project key, Jira label or helpdesk
\* tag), classify_product_vertical returns the result of rule_based_vertical
\* and never that of the ensemble; a Jira project match gives confidence 0.95
\* and the Jira project list of the returned vertical contains the ticket's
\* project key.
C5_RuleWinsOverEnsemble ==
    pv_out # None =>
        LET out == pv_out[1]
        IN  /\ (ClaimProjectMatch \/ ClaimLabelMatch) =>
                /\ out = rule_based_vertical(pv_in.source, pv_in.labels_csv,
                                             pv_in.project)
                /\ out.exp.rule \in {"jira_project", "jira_label", "zendesk_tag"}
                /\ out.slug # NoStr
            /\ ClaimProjectMatch =>
                /\ out.conf = CONF_PROJECT
                /\ out.exp.rule = "jira_project"
                /\ \E i \in 1..Len(VERTICALS) :
                      /\ VERTICALS[i].slug = out.slug
                      /\ \E j \in 1..Len(VERTICALS[i].jira_projects) :
                            Upper(VERTICALS[i].jira_projects[j]) = ClaimProjectKey

\* A project match is returned although the ensemble alone would name another
\* vertical at the ceiling of its confidence.
C5_Witness ==
    /\ pv_out # None
    /\ ClaimProjectMatch
    /\ pv_out[1].exp.rule = "jira_project"
    /\ ClaimEnsemble.slug # NoStr
    /\ ClaimEnsemble.slug # pv_out[1].slug
    /\ ClaimEnsemble.conf = CONF_CEIL

(***************************************************************************)
(* The store (db.py) and the services that classify, cluster and label the *)
(* tickets in it (services/insights.py, services/verticals.py,             *)
(* services/review.py).                                                    *)
(*                                                                         *)
(* A ticket row holds its id, its type and p, the index in TicketPool of   *)
(* the payload the connector delivered for it: source, title, content,     *)
(* labels, status, project, is_internal, the age in days of                *)
(* source_updated_at (NoAge: NULL) and the similarities the embedding      *)
(* model gives its text.                                                   *)
(***************************************************************************)
MaxItems == 2

MaxThemeRows == 1

\* days=None
NoDays == -1

\* (pv_map.get(t.id) or {}).get("confidence") of a ticket without a row
NoConf == -1

\* 0.80, the least confidence an automated assignment is stored with
THRESHOLD == 12000

\* 1.0, the confidence of a manual assignment
CONF_MANUAL == 15000

\* flat[:10]
TOP_N == 10

\* classify_ticket(t.source, t.title or "", t.content or "", t.labels or "",
\* t.status or "") for the ticket of every payload
PoolType ==
    Tabulate([p \in 1..Len(TicketPool) |->
        classify_ticket(TicketPool[p].source, TicketPool[p].title,
                        TicketPool[p].content, TicketPool[p].labels,
                        TicketPool[p].status)])

\* classify_product_vertical(t.source or "", t.title or "", t.content or "",
\* t.labels or "", t.project or "") for the ticket of every payload
PoolVertical ==
    Tabulate([p \in 1..Len(TicketPool) |->
        classify_product_vertical(TicketPool[p].source, TicketPool[p].title,
                                  TicketPool[p].content, TicketPool[p].labels,
                                  TicketPool[p].project,
                                  SimsOf(TicketPool[p].top, TicketPool[p].hi,
                                         TicketPool[p].lo))])

\* clean_text(f"{t.title}. {t.content}") for the ticket of every payload
PoolText ==
    Tabulate([p \in 1..Len(TicketPool) |->
        clean_text(TicketPool[p].title \o <<"."," ">> \o TicketPool[p].content)])

\* embed_texts([text])[0]: the vector the model gives a text, named by the
\* first payload of the pool with that text
embed_texts(text) ==
    CHOOSE p \in 1..Len(TicketPool) :
        /\ PoolText[p] = text
        /\ \A q \in 1..(p - 1) : PoolText[q] # text

TicketTypes == {"issue", "feature_request", "unknown"}

(***************************************************************************)
(* Sessions.  SessionLocal is made with autoflush=False: a query sees the  *)
(* rows of the table, with the changes the session made to them, and not   *)
(* the objects added since the last commit.                                *)
(***************************************************************************)
NewSession(rows) == [rows |-> rows, pending |-> <<>>]

\* session.query(...).filter_by(ticket_id=ticket_id).one_or_none() finds a row
Existing(s, ticket_id) == \E r \in s.rows : r.ticket_id = ticket_id

\* A variant without the constraint.
UniqueViolation_Unchecked(s) == FALSE

\* unique=True on ticket_id: the flush of a commit inserts the pending
\* objects, and fails when two of them, or one of them and a row, have the
\* same ticket_id
UniqueViolation(s) ==
    \/ \E i, j \in 1..Len(s.pending) :
          i < j /\ s.pending[i].ticket_id = s.pending[j].ticket_id
    \/ \E i \in 1..Len(s.pending) : Existing(s, s.pending[i].ticket_id)

\* the table after a commit that did not fail
Committed(s) == s.rows \cup Range(s.pending)

ManualExplanation == [source |-> "manual", rule |-> "", reason |-> ""]

upsert_ticket_vertical(s, ticket_id, vertical_slug, vertical_name, confidence, explanation) ==
    LET row == [ticket_id |-> ticket_id, vertical_slug |-> vertical_slug,
                vertical_name |-> vertical_name, confidence |-> confidence,
                explanation |-> explanation]
    IN  IF Existing(s, ticket_id)
        THEN [s EXCEPT !.rows = {IF r.ticket_id = ticket_id THEN row ELSE r : r \in @}]
        ELSE [s EXCEPT !.pending = Append(@, row)]

upsert_gold_label(s, ticket_id, vertical_slug, vertical_name, reviewer, note) ==
    IF Existing(s, ticket_id)
    THEN [s EXCEPT !.rows =
            {IF r.ticket_id = ticket_id
             THEN [ticket_id |-> ticket_id, vertical_slug |-> vertical_slug,
                   vertical_name |-> vertical_name,
                   reviewer |-> IF reviewer # "" THEN reviewer ELSE r.reviewer,
                   note |-> IF note # "" THEN note ELSE r.note]
             ELSE r : r \in @}]
    ELSE [s EXCEPT !.pending =
            Append(@, [ticket_id |-> ticket_id, vertical_slug |-> vertical_slug,
                       vertical_name |-> vertical_name, reviewer |-> reviewer,
                       note |-> note])]

(***************************************************************************)
(* services/insights.py and services/verticals.py                          *)
(***************************************************************************)
\* source_updated_at == None or source_updated_at >= utcnow() - days
InWindow(t, days) == Payload(t).age = NoAge \/ Payload(t).age <= days

\* is_internal == None or is_internal == False
NotInternal(t) == Payload(t).is_internal \in {"null", "false"}

_tickets_since_days(days, include_internal) ==
    SelectSeq(tickets, LAMBDA t : /\ InWindow(t, days)
                                  /\ (include_internal \/ NotInternal(t)))

\* A variant that stores whatever the classifier names.
Storable_Lower(v) == v.slug # NoStr /\ v.conf >= CONF_FLOOR

\* if v_slug and v_conf >= 0.80
Storable(v) == v.slug # NoStr /\ v.conf >= THRESHOLD

\* the loop of _classify_and_count and of backfill_verticals over
\* ts[i..]: the session s of ticket_product_verticals and the number of
\* upserts made
RECURSIVE ClassifyVerticals(_, _, _)
ClassifyVerticals(ts, i, st) ==
    IF i > Len(ts) THEN st
    ELSE LET v == PoolVertical[ts[i].p]
         IN  ClassifyVerticals(ts, i + 1,
                IF Storable(v)
                THEN [s |-> upsert_ticket_vertical(st.s, ts[i].id, v.slug, v.name,
                                                   v.conf, v.exp),
                      updated |-> st.updated + 1]
                ELSE st)

\* t.type = classify_ticket(...) for the tickets of ts
_classify_and_count(ts) ==
    [tickets |-> [i \in 1..Len(tickets) |->
                    IF \E j \in 1..Len(ts) : ts[j].id = tickets[i].id
                    THEN [tickets[i] EXCEPT !.type = PoolType[tickets[i].p]]
                    ELSE tickets[i]],
     s |-> ClassifyVerticals(ts, 1, [s |-> NewSession(tpv), updated |-> 0]).s]

\* A variant that embeds every ticket of the window again.
_ensure_embeddings_Recompute(ts) ==
    { e \in emb : ~\E i \in 1..Len(ts) : ts[i].id = e.ticket_id }
        \cup { [ticket_id |-> ts[i].id, vector |-> embed_texts(PoolText[ts[i].p])] :
                 i \in 1..Len(ts) }

\* the rows _ensure_embeddings adds: one for every ticket of ts without one
_ensure_embeddings(ts) ==
    emb \cup { [ticket_id |-> ts[i].id, vector |-> embed_texts(PoolText[ts[i].p])] :
                 i \in {j \in 1..Len(ts) : ~\E e \in emb : e.ticket_id = ts[j].id} }

\* A variant that asks for two clusters at least.
ClampK_AtLeastTwo(k, n) == Max2(2, Min2(k, n))

\* k = max(1, min(k, len(vectors)))
ClampK(k, n) == Max2(1, Min2(k, n))

\* nlp/cluster.py: the label vectors KMeans may give n vectors
kmeans_clusters(n, k) ==
    IF n = 0 THEN {<<>>}
    ELSE [1..n -> 0..(ClampK(k, n) - 1)]

\* the elements of seq whose index is in keep, in order
RECURSIVE PickFrom(_, _, _)
PickFrom(seq, keep, i) ==
    IF i > Len(seq) THEN <<>>
    ELSE (IF i \in keep THEN <<seq[i]>> ELSE <<>>) \o PickFrom(seq, keep, i + 1)

Pick(seq, keep) == PickFrom(seq, keep, 1)

\* A variant that keeps the bucket of the first ticket alone.
BucketLabels_FirstOnly(labels) == <<labels[1]>>

\* theme_buckets.items(): the labels in the order of their first ticket
BucketLabels(labels) ==
    Pick(labels, {i \in 1..Len(labels) : \A j \in 1..(i - 1) : labels[j] # labels[i]})

\* the ticket as the response shows it
TicketOut(t, rows) ==
    LET tv == {r \in rows : r.ticket_id = t.id}
        row == CHOOSE r \in tv : TRUE
    IN  [id |-> t.id, source |-> Payload(t).source, type |-> t.type,
         product_vertical |-> IF tv = {} THEN NoStr ELSE row.vertical_name,
         product_vertical_slug |-> IF tv = {} THEN NoStr ELSE row.vertical_slug,
         product_vertical_confidence |-> IF tv = {} THEN NoConf ELSE row.confidence]

\* A variant that gives a tie to the feature requests.
MajorityType_TieToFeature(ts) ==
    LET n(kind) == Cardinality({i \in 1..Len(ts) : ts[i].type = kind})
    IN  IF n("issue") > n("feature_request") THEN "issue" ELSE "feature_request"

\* A variant that calls a theme without a majority mixed.
MajorityType_Mixed(ts) ==
    LET n(kind) == Cardinality({i \in 1..Len(ts) : ts[i].type = kind})
    IN  IF n("issue") > n("feature_request") THEN "issue"
        ELSE IF n("feature_request") > n("issue") THEN "feature_request"
        ELSE "mixed"

\* "issue" if data.get("issue",0) >= data.get("feature_request",0)
MajorityType(ts) ==
    LET n(kind) == Cardinality({i \in 1..Len(ts) : ts[i].type = kind})
    IN  IF n("issue") >= n("feature_request") THEN "issue" ELSE "feature_request"

\* one entry of out_themes
ThemeOf(lab, ordered, labels, rows) ==
    LET ts == Pick(ordered, {i \in 1..Len(ordered) : labels[i] = lab})
    IN  [label |-> lab, type |-> MajorityType(ts), size |-> Len(ts),
         tickets |-> [i \in 1..Len(ts) |-> TicketOut(ts[i], rows)]]

\* A variant that leaves the themes in the order of their buckets.
SortBySize_Unsorted(themes) == themes

\* out_themes.sort(key=lambda x: x["size"], reverse=True): the sort is
\* stable, themes of one size keep their order
RECURSIVE SortBySize(_)
SortBySize(themes) ==
    IF themes = <<>> THEN <<>>
    ELSE LET rest == SortBySize(Tail(themes))
             pos == Cardinality({i \in 1..Len(rest) : rest[i].size > Head(themes).size})
         IN  SubSeq(rest, 1, pos) \o <<Head(themes)>> \o SubSeq(rest, pos + 1, Len(rest))

RECURSIVE Flatten(_)
Flatten(themes) ==
    IF themes = <<>> THEN <<>>
    ELSE Head(themes).tickets \o Flatten(Tail(themes))

\* A variant that takes the first ten tickets of every theme.
pick_top_PerTheme(themes, kind) ==
    SelectSeq(Flatten([i \in 1..Len(themes) |->
                          [tickets |-> Clip(themes[i].tickets, TOP_N)]]),
              LAMBDA t : t.type = kind)

pick_top(themes, kind) ==
    Clip(SelectSeq(Flatten(themes), LAMBDA t : t.type = kind), TOP_N)

\* {"run_id": None, "themes": [], "top_issues": [], "top_features": []}
EmptyRun(k) ==
    [op |-> "build_themes", k |-> k, raised |-> "", run |-> FALSE,
     clustered |-> <<>>, themes |-> <<>>, top_issues |-> <<>>, top_features |-> <<>>]

BuildDays == {30, 90}

BuildKs == {0, 1, 12}

\* build_themes from step (3) on: ts are the tickets of the window, rows the
\* stored assignments and emb1 the stored embeddings after steps (1) and (2)
ClusterThemes(k, ts, rows, emb1) ==
    LET ordered == SelectSeq(ts, LAMBDA t : \E e \in emb1 : e.ticket_id = t.id)
    IN  \E labels \in kmeans_clusters(Len(ordered), k) :
            IF Len(labels) = 0
            THEN /\ result' = EmptyRun(k)
                 /\ UNCHANGED theme_rows
            ELSE LET bl == BucketLabels(labels)
                     out == [i \in 1..Len(bl) |-> ThemeOf(bl[i], ordered, labels, rows)]
                     themes == SortBySize(out)
                 IN  /\ theme_rows' = Min2(theme_rows + Len(out), MaxThemeRows)
                     /\ result' =
                          [op |-> "build_themes", k |-> k, raised |-> "", run |-> TRUE,
                           clustered |-> [i \in 1..Len(ordered) |-> ordered[i].id],
                           themes |-> themes,
                           top_issues |-> pick_top(themes, "issue"),
                           top_features |-> pick_top(themes, "feature_request")]

\* build_themes from the first commit on: cls is what _classify_and_count
\* made of the tickets and of the session
StoreAndCluster(k, cls, ids) ==
    IF UniqueViolation(cls.s)
    THEN /\ result' = [op |-> "build_themes", k |-> k, raised |-> "IntegrityError"]
         /\ UNCHANGED <<tickets, tpv, gold, emb, theme_rows>>
    ELSE LET ts == SelectSeq(cls.tickets, LAMBDA t : t.id \in ids)
             emb1 == _ensure_embeddings(ts)
         IN  /\ tickets' = cls.tickets
             /\ tpv' = Committed(cls.s)
             /\ emb' = emb1
             /\ UNCHANGED gold
             /\ ClusterThemes(k, ts, Committed(cls.s), emb1)

\* build_themes: what it does to the store, and the data it returns
build_themes(days, k, include_internal) ==
    LET ts0 == _tickets_since_days(days, include_internal)
    IN  IF ts0 = <<>>
        THEN /\ result' = EmptyRun(k)
             /\ UNCHANGED <<tickets, tpv, gold, emb, theme_rows>>
        ELSE StoreAndCluster(k, _classify_and_count(ts0),
                             {ts0[j].id : j \in 1..Len(ts0)})

BuildThemes(days, k, include_internal) ==
    /\ build_themes(days, k, include_internal)
    /\ UNCHANGED <<cleanVars, typeVars, vertVars, extVars>>

BackfillDays == {NoDays, 30}

BackfillVerticals(days) ==
    LET ts == IF days = NoDays THEN tickets
              ELSE SelectSeq(tickets, LAMBDA t : InWindow(t, days))
        st == ClassifyVerticals(ts, 1, [s |-> NewSession(tpv), updated |-> 0])
    IN  /\ IF UniqueViolation(st.s)
           THEN /\ result' = [op |-> "backfill_verticals", raised |-> "IntegrityError"]
                /\ UNCHANGED tpv
           ELSE /\ tpv' = Committed(st.s)
                /\ result' = [op |-> "backfill_verticals", raised |-> "",
                              scanned |-> Len(ts), labeled |-> st.updated]
        /\ UNCHANGED <<tickets, gold, emb, theme_rows, cleanVars, typeVars, vertVars, extVars>>

(***************************************************************************)
(* services/review.py                                                      *)
(***************************************************************************)
\* idx_by_slug and idx_by_name: the keys, by catalog index
idx_by_slug == Tabulate([i \in 1..Len(VERTICALS) |-> Lower(VERTICALS[i].slug_chars)])

idx_by_name == Tabulate([i \in 1..Len(VERTICALS) |-> Lower(VERTICALS[i].name_chars)])

\* idx.get(key): the catalog index of the last vertical with that key, 0 for
\* None
DictGet(idx, key) ==
    LET hits == {i \in 1..Len(idx) : idx[i] = key}
    IN  IF hits = {} THEN 0 ELSE CHOOSE i \in hits : \A j \in hits : j <= i

\* A variant that looks the name up first.
ResolveVertical_NameFirst(vertical_slug, vertical_name) ==
    LET slug == Lower(Strip(vertical_slug))
        name == Lower(Strip(vertical_name))
    IN  IF DictGet(idx_by_name, name) # 0 THEN DictGet(idx_by_name, name)
        ELSE DictGet(idx_by_slug, slug)

\* v = idx_by_slug.get(slug) or idx_by_name.get(name)
ResolveVertical(vertical_slug, vertical_name) ==
    LET slug == Lower(Strip(vertical_slug))
        name == Lower(Strip(vertical_name))
    IN  IF DictGet(idx_by_slug, slug) # 0 THEN DictGet(idx_by_slug, slug)
        ELSE DictGet(idx_by_name, name)

ItemVerticals ==
    { [vertical_slug |-> <<" ","F","X","-","S","e","r","v","i","c","e"," ">>, vertical_name |-> <<>>],
      [vertical_slug |-> <<>>, vertical_name |-> <<"c","l","i","e","n","t"," ","p","o","r","t","a","l">>],
      [vertical_slug |-> <<"n","o","p","e">>, vertical_name |-> <<"N","o","p","e">>] }

\* items that name a vertical by slug and another, or none, by name, and one
\* whose slug names none and whose name names one
BothItemVerticals ==
    { [vertical_slug |-> <<"f","x","-","s","e","r","v","i","c","e">>,
       vertical_name |-> <<"C","l","i","e","n","t"," ","P","o","r","t","a","l">>],
      [vertical_slug |-> <<"n","o","p","e">>,
       vertical_name |-> <<" ","F","X"," ","S","e","r","v","i","c","e">>] }

\* ResolveVertical for the vertical fields of every item a request may carry
ResolvedVertical ==
    Tabulate([v \in ItemVerticals \cup BothItemVerticals |->
                ResolveVertical(v.vertical_slug, v.vertical_name)])

\* the loop of submit_labels over items[i..]: the sessions of the two tables
\* and the number of items stored
RECURSIVE SubmitItems(_, _, _, _)
SubmitItems(items, reviewer, i, st) ==
    IF i > Len(items) THEN st
    ELSE LET it == items[i]
             v == ResolvedVertical[[vertical_slug |-> it.vertical_slug,
                                    vertical_name |-> it.vertical_name]]
         IN  SubmitItems(items, reviewer, i + 1,
                IF v = 0 THEN st
                ELSE [gl |-> upsert_gold_label(st.gl, it.ticket_id, VERTICALS[v].slug,
                                               VERTICALS[v].name, reviewer, it.note),
                      tv |-> upsert_ticket_vertical(st.tv, it.ticket_id,
                                                    VERTICALS[v].slug, VERTICALS[v].name,
                                                    CONF_MANUAL, ManualExplanation),
                      updated |-> st.updated + 1])

Reviewers == {"ann"}

Notes == {""}

\* the items a request may carry for the tickets of the store
Items ==
    { [ticket_id |-> id, vertical_slug |-> v.vertical_slug,
       vertical_name |-> v.vertical_name, note |-> note] :
        id \in 1..Len(tickets), v \in ItemVerticals, note \in Notes }

\* the requests of n items
ItemLists(n) == [1..n -> Items]

\* submit_labels: what it does to the store, and what it returns
submit_labels(items, reviewer) ==
    LET st == SubmitItems(items, reviewer, 1,
                          [gl |-> NewSession(gold), tv |-> NewSession(tpv),
                           updated |-> 0])
    IN  /\ IF UniqueViolation(st.gl) \/ UniqueViolation(st.tv)
           THEN /\ result' = [op |-> "submit_labels", raised |-> "IntegrityError"]
                /\ UNCHANGED <<gold, tpv>>
           ELSE /\ gold' = Committed(st.gl)
                /\ tpv' = Committed(st.tv)
                /\ result' = [op |-> "submit_labels", raised |-> "",
                              updated |-> st.updated]
        /\ UNCHANGED <<tickets, emb, theme_rows>>

SubmitLabels(items, reviewer) ==
    /\ submit_labels(items, reviewer)
    /\ UNCHANGED <<cleanVars, typeVars, vertVars, extVars>>

\* the stores a sync leaves: the payloads of the tickets, in id order; the
\* tickets are typed "unknown" and nothing is derived from them yet
TicketLists == { <<>>, <<1, 2>>, <<3, 4>>, <<1, 4>> }

Init ==
    /\ \E ps \in TicketLists :
          tickets = [i \in 1..Len(ps) |-> [id |-> i, p |-> ps[i], type |-> "unknown"]]
    /\ tpv = {}
    /\ gold = {}
    /\ emb = {}
    /\ theme_rows = 0
    /\ result = [op |-> "none"]
    /\ CleanIdle
    /\ TypeIdle
    /\ VertIdle
    /\ ExtIdle

Build == \E days \in BuildDays, k \in BuildKs, include_internal \in BOOLEAN :
            BuildThemes(days, k, include_internal)

Backfill == \E days \in BackfillDays : BackfillVerticals(days)

Submit == \E n \in 1..MaxItems :
            \E items \in ItemLists(n), reviewer \in Reviewers :
                SubmitLabels(items, reviewer)

Next == Build \/ Backfill \/ Submit

Spec == Init /\ [][Next]_vars

(***************************************************************************)
(* Properties of the store and of the services over it.                    *)
(***************************************************************************)
\* A stored assignment as submit_labels writes it.
IsManual(r) == r.confidence = CONF_MANUAL /\ r.explanation.source = "manual"

\* The step is one of an automated operation.
AutomatedStep == result'.op \in {"build_themes", "backfill_verticals"}

\* C1: once submit_labels has stored a ticket's assignment with confidence 1.0
\* and source "manual", the stored assignment keeps its slug, its confidence
\* and its source through every automated operation (build_themes,
\* backfill_verticals); only a later submit_labels changes it.
C1_ManualPersists ==
    [][AutomatedStep => \A r \in tpv : IsManual(r) => r \in tpv']_vars

\* The vertical an item of a request resolves to, 0 when it resolves to none.
ClaimResolved(it) ==
    ResolvedVertical[[vertical_slug |-> it.vertical_slug,
                      vertical_name |-> it.vertical_name]]

\* C2: submit_labels always leaves, for every ticket it is given a gold label
\* for, a stored assignment with confidence exactly 1.0 and explanation
\* source "manual", whatever was stored for the ticket before.
C2_SubmitStoresManual ==
    [][\A items \in UNION {ItemLists(n) : n \in 1..MaxItems}, reviewer \in Reviewers :
          SubmitLabels(items, reviewer) =>
              \A i \in 1..Len(items) :
                  ClaimResolved(items[i]) # 0 =>
                      \E r \in tpv' : r.ticket_id = items[i].ticket_id /\ IsManual(r)]_vars

\* C3: after any sequence of insight builds, vertical backfills and label
\* submissions every stored assignment has a confidence in [0,1] and a slug of
\* the catalog, and no ticket has two stored assignments.
C3_AssignmentsValid ==
    \A r \in tpv :
        /\ r.confidence >= 0
        /\ r.confidence <= CONF_MANUAL
        /\ \E i \in 1..Len(VERTICALS) : VERTICALS[i].slug = r.vertical_slug
        /\ \A q \in tpv : q.ticket_id = r.ticket_id => q = r

\* Two tickets have a stored assignment, one from a reviewer and one from a
\* rule of the classifier.
C3_Witness ==
    \E r, q \in tpv :
        /\ r.ticket_id # q.ticket_id
        /\ IsManual(r)
        /\ q.explanation.rule # ""
        /\ q.confidence < CONF_MANUAL

\* The stored assignments of a ticket.
ClaimRows(rows, id) == {r \in rows : r.ticket_id = id}

\* C4: an automated operation (build_themes, backfill_verticals) writes an
\* assignment only with a confidence of at least 0.80: the stored assignment,
\* present or absent, of a ticket whose classification has no vertical or a
\* confidence below 0.80 is left as it was, and every assignment the
\* operation writes has a confidence of at least 0.80.
C4_LowConfidenceNotStored ==
    [][AutomatedStep =>
          /\ \A i \in 1..Len(tickets) :
                (\/ PoolVertical[tickets[i].p].slug = NoStr
                 \/ PoolVertical[tickets[i].p].conf < THRESHOLD)
                => ClaimRows(tpv', tickets[i].id) = ClaimRows(tpv, tickets[i].id)
          /\ \A r \in tpv' \ tpv : r.confidence >= THRESHOLD]_vars

\* An insight build has just clustered a ticket whose classification is below
\* 0.80, and the ticket still has the assignment a reviewer gave it.
C4_Witness ==
    /\ result.op = "build_themes"
    /\ result.raised = ""
    /\ \E i \in 1..Len(tickets) :
          /\ PoolVertical[tickets[i].p].slug # NoStr
          /\ PoolVertical[tickets[i].p].conf < THRESHOLD
          /\ \E j \in 1..Len(result.clustered) : result.clustered[j] = tickets[i].id
          /\ \E r \in tpv : r.ticket_id = tickets[i].id /\ IsManual(r)

\* C8: after classification the type of a ticket is one of issue,
\* feature_request and unknown: classify_ticket returns no other value, for
\* any source and any text.
C8_TypeInDomain == ty_out # None => ty_out[1] \in TicketTypes

\* A ticket of a source without a default, whose text holds words of both
\* vocabularies, is typed unknown.
C8_Witness ==
    /\ ty_out = Some("unknown")
    /\ RE_FEATURE(ClaimText)
    /\ RE_ISSUE(ClaimText)

\* The last call was an insight build that returned.
ClaimBuilt == result.op = "build_themes" /\ result.raised = ""

\* The places <<theme, position>> of the result where ticket id stands.
ClaimPlaces(id) ==
    { pl \in UNION { {<<i, j>> : j \in 1..Len(result.themes[i].tickets)} :
                       i \in 1..Len(result.themes) } :
        result.themes[pl[1]].tickets[pl[2]].id = id }

\* C9: in every build_themes result the ticket lists of the themes partition
\* the tickets passed to the clustering run: each of these tickets, all of
\* which have a stored embedding, stands in exactly one theme, no other ticket
\* stands in a theme, and the size of a theme is the number of its tickets.
C9_ThemesPartition ==
    ClaimBuilt =>
        /\ \A j \in 1..Len(result.clustered) :
              /\ Cardinality(ClaimPlaces(result.clustered[j])) = 1
              /\ \E e \in emb : e.ticket_id = result.clustered[j]
        /\ \A i \in 1..Len(result.themes) :
              /\ result.themes[i].size = Len(result.themes[i].tickets)
              /\ result.themes[i].size > 0
              /\ \A j \in 1..Len(result.themes[i].tickets) :
                    \E c \in 1..Len(result.clustered) :
                        result.clustered[c] = result.themes[i].tickets[j].id

\* A build has put two tickets into two themes.
C9_Witness ==
    /\ ClaimBuilt
    /\ Len(result.clustered) = 2
    /\ Len(result.themes) = 2
    /\ result.themes[1].tickets[1].id # result.themes[2].tickets[1].id

\* C10: clustering with k = 1, or with any k that is clamped to 1, over a
\* nonempty ticket set gives exactly one theme, which holds all the tickets;
\* for no tickets the label vector is empty, the result has no theme, and
\* nothing is raised.
C10_OneClusterOneTheme ==
    /\ \A k \in BuildKs : kmeans_clusters(0, k) = {<<>>}
    /\ result.op = "build_themes" =>
          /\ result.raised = ""
          /\ result.clustered = <<>> => ~result.run /\ result.themes = <<>>
          /\ (/\ result.clustered # <<>>
              /\ (result.k <= 1 \/ Len(result.clustered) = 1)) =>
                 /\ result.run
                 /\ Len(result.themes) = 1
                 /\ [j \in 1..Len(result.themes[1].tickets) |->
                        result.themes[1].tickets[j].id] = result.clustered

\* A build asked for fewer than one cluster has put two tickets into its one
\* theme.
C10_Witness ==
    /\ ClaimBuilt
    /\ result.k < 1
    /\ Len(result.clustered) = 2
    /\ Len(result.themes) = 1
    /\ result.themes[1].size = 2

(***************************************************************************)
(* services/query.py: the semantic search over the stored tickets.         *)
(***************************************************************************)
TypeChars(type) ==
    CASE type = "issue" -> <<"i","s","s","u","e">>
      [] type = "feature_request" ->
            <<"f","e","a","t","u","r","e","_","r","e","q","u","e","s","t">>
      [] OTHER -> <<"u","n","k","n","o","w","n">>

All == <<"a","l","l">>

\* (r.vertical_slug or "").lower() and (r.vertical_name or "").lower()
RowSlugLower(r) ==
    Lower(VERTICALS[CHOOSE i \in 1..Len(VERTICALS) :
                        VERTICALS[i].slug = r.vertical_slug].slug_chars)

RowNameLower(r) ==
    Lower(VERTICALS[CHOOSE i \in 1..Len(VERTICALS) :
                        VERTICALS[i].name = r.vertical_name].name_chars)

\* _apply_filters: source, kind and vertical are <<>> for None and for ""
_apply_filters(ts, source, kind, vertical, rows) ==
    LET by_source ==
            IF source # <<>> /\ Lower(source) # All
            THEN SelectSeq(ts, LAMBDA t :
                    Lower(SourceChars(Payload(t).source)) = Lower(source))
            ELSE ts
        by_kind ==
            IF kind # <<>> /\ \E ty \in TicketTypes : TypeChars(ty) = Lower(kind)
            THEN SelectSeq(by_source, LAMBDA t : Lower(TypeChars(t.type)) = Lower(kind))
            ELSE by_source
    IN  IF vertical # <<>> /\ Lower(vertical) # All
        THEN SelectSeq(by_kind, LAMBDA t :
                \E r \in rows : /\ r.ticket_id = t.id
                                /\ \/ Lower(vertical) = RowSlugLower(r)
                                   \/ Lower(vertical) = RowNameLower(r))
        ELSE by_kind

\* _fetch_vectors: the tickets that have a stored embedding, in order
_fetch_vectors(ts, emb1) ==
    SelectSeq(ts, LAMBDA t : \E e \in emb1 : e.ticket_id = t.id)

\* A variant that sorts the similarities themselves.
ArgSortDescending_Ascending(sims) ==
    { perm \in [1..Len(sims) -> 1..Len(sims)] :
        /\ \A i, j \in 1..Len(sims) : i # j => perm[i] # perm[j]
        /\ \A i, j \in 1..Len(sims) : i < j => sims[perm[i]] <= sims[perm[j]] }

\* np.argsort(-sims): the orders of the indices by falling similarity; the
\* sort is not stable, equal similarities come in either order
ArgSortDescending(sims) ==
    { perm \in [1..Len(sims) -> 1..Len(sims)] :
        /\ \A i, j \in 1..Len(sims) : i # j => perm[i] # perm[j]
        /\ \A i, j \in 1..Len(sims) : i < j => sims[perm[i]] >= sims[perm[j]] }

\* the four early returns of answer_question
NoResults(answer) ==
    [op |-> "answer_question", answer |-> answer, top_k |-> 0,
     scored |-> <<>>, results |-> <<>>]

Questions == { <<" ">>, <<"f","x","?">>, <<"d","o","c","s","\n">> }

\* matrix @ embed_texts([clean_text(q)])[0]: the similarity the model gives
\* a question and each stored vector, in hundredths
QuestionSims(q) ==
    CASE q = <<"f","x","?">> -> <<90, 30, -20, 30>>
      [] q = <<"d","o","c","s">> -> <<30, 30, 90, -20>>
      [] OTHER -> <<55, 55, 55, 55>>

\* answer_question from the filters on: ts are the tickets of the window,
\* emb1 the stored embeddings after _ensure_embeddings
AnswerFrom(q, top_k, source, kind, vertical, ts, emb1) ==
    LET ordered == _fetch_vectors(_apply_filters(ts, source, kind, vertical, tpv), emb1)
    IN  IF _apply_filters(ts, source, kind, vertical, tpv) = <<>>
        THEN result' = NoResults("No tickets matched the selected filters.")
        ELSE IF ordered = <<>>
        THEN result' = NoResults("No embeddings available to search.")
        ELSE    LET sims == [i \in 1..Len(ordered) |->
                               QuestionSims(clean_text(q))[(CHOOSE e \in emb1 :
                                         e.ticket_id = ordered[i].id).vector]]
                IN  \E perm \in ArgSortDescending(sims) :
                        result' =
                          [op |-> "answer_question", answer |-> "I found", top_k |-> top_k,
                           scored |-> [i \in 1..Len(ordered) |->
                                        [id |-> ordered[i].id, similarity |-> sims[i]]],
                           results |-> [n \in 1..Min2(Max2(1, top_k), Len(ordered)) |->
                                        [id |-> ordered[perm[n]].id,
                                         source |-> Payload(ordered[perm[n]]).source,
                                         similarity |-> sims[perm[n]],
                                         type |-> ordered[perm[n]].type]]]

answer_question(question, days, top_k, source, kind, vertical, include_internal) ==
    /\ IF Strip(question) = <<>>
       THEN /\ result' = NoResults("Please provide a question.")
            /\ UNCHANGED emb
       ELSE IF _tickets_since_days(days, include_internal) = <<>>
       THEN /\ result' = NoResults("No tickets available to search.")
            /\ UNCHANGED emb
       ELSE /\ emb' = _ensure_embeddings(_tickets_since_days(days, include_internal))
            /\ AnswerFrom(Strip(question), top_k, source, kind, vertical,
                          _tickets_since_days(days, include_internal),
                          _ensure_embeddings(_tickets_since_days(days, include_internal)))
    /\ UNCHANGED <<tickets, tpv, gold, theme_rows, cleanVars, typeVars, vertVars, extVars>>

QueryDays == {30, 90}

QueryTopKs == {0, 2, 5}

QuerySources == { <<>>, <<"Z","e","n","d","e","s","k">> }

QueryKinds == { <<>>, <<"I","s","s","u","e">> }

QueryVerticals == { <<>>, <<"F","X","-","S","e","r","v","i","c","e">> }

\* the stores a query may find: the tickets as a sync left them, or as a
\* build over all of them left them (typed, assigned, embedded)
QueryLists == { <<>>, <<1, 2, 3>>, <<1, 4, 2>> }

InitQuery ==
    /\ \E ps \in QueryLists, built \in BOOLEAN :
          /\ tickets = [i \in 1..Len(ps) |->
                          [id |-> i, p |-> ps[i],
                           type |-> IF built THEN PoolType[ps[i]] ELSE "unknown"]]
          /\ tpv = IF built
                   THEN { [ticket_id |-> i, vertical_slug |-> PoolVertical[ps[i]].slug,
                           vertical_name |-> PoolVertical[ps[i]].name,
                           confidence |-> PoolVertical[ps[i]].conf,
                           explanation |-> PoolVertical[ps[i]].exp] :
                            i \in {j \in 1..Len(ps) : Storable(PoolVertical[ps[j]])} }
                   ELSE {}
          /\ emb = IF built
                   THEN { [ticket_id |-> i, vector |-> embed_texts(PoolText[ps[i]])] :
                            i \in 1..Len(ps) }
                   ELSE {}
    /\ gold = {}
    /\ theme_rows = 0
    /\ result = [op |-> "none"]
    /\ CleanIdle
    /\ TypeIdle
    /\ VertIdle
    /\ ExtIdle

Ask ==
    \E question \in Questions, days \in QueryDays, top_k \in QueryTopKs,
       source \in QuerySources, kind \in QueryKinds, vertical \in QueryVerticals,
       include_internal \in BOOLEAN :
        answer_question(question, days, top_k, source, kind, vertical, include_internal)

NextQuery == Ask

SpecQuery == InitQuery /\ [][NextQuery]_vars

\* C11: in every answer_question result the results come by non-increasing
\* similarity, there are at most max(1, top_k) of them, each is a candidate
\* with its own similarity, and no candidate left out has a similarity above
\* that of a returned one.
C11_TopKSorted ==
    result.op = "answer_question" =>
        /\ \A i, j \in 1..Len(result.results) :
              i < j => result.results[i].similarity >= result.results[j].similarity
        /\ Len(result.results) <= Max2(1, result.top_k)
        /\ \A i, j \in 1..Len(result.results) :
              i # j => result.results[i].id # result.results[j].id
        /\ \A i \in 1..Len(result.results) :
              \E c \in 1..Len(result.scored) :
                  /\ result.scored[c].id = result.results[i].id
                  /\ result.scored[c].similarity = result.results[i].similarity
        /\ \A c \in 1..Len(result.scored) :
              (\A i \in 1..Len(result.results) :
                    result.results[i].id # result.scored[c].id) =>
                 \A i \in 1..Len(result.results) :
                    result.results[i].similarity >= result.scored[c].similarity

\* A query over three candidates of different similarities has returned the
\* best two and left the third out.
C11_Witness ==
    /\ result.op = "answer_question"
    /\ result.top_k = 2
    /\ Len(result.scored) = 3
    /\ Len(result.results) = 2
    /\ result.results[1].similarity > result.results[2].similarity
    /\ \E c \in 1..3 : result.scored[c].similarity < result.results[2].similarity

(***************************************************************************)
(* services/calibration.py: precision and coverage of the classifier on    *)
(* the tickets a structured rule labels.                                   *)
(***************************************************************************)
\* 15000 * th for th in 0.50, 0.55, ..., 0.95
thresholds ==
    <<7500, 8250, 9000, 9750, 10500, 11250, 12000, 12750, 13500, 14250>>

DefaultSources == {"jira", "zendesk"}

\* rule_based_vertical(t.source or "", t.labels or "", t.project or "") for
\* the ticket of every payload
PoolRule ==
    Tabulate([p \in 1..Len(TicketPool) |->
        rule_based_vertical(TicketPool[p].source, TicketPool[p].labels,
                            TicketPool[p].project)])

\* _iter_labeled_examples: the tickets of the sources and of the window that
\* a structured rule labels
_iter_labeled_examples(sources, days) ==
    SelectSeq(tickets, LAMBDA t :
        /\ Payload(t).source \in sources
        /\ (days # NoDays /\ days > 0) => InWindow(t, days)
        /\ PoolRule[t.p].slug # NoStr)

\* preds: the rule's label, the classifier's label and its confidence
Predictions(dataset) ==
    [i \in 1..Len(dataset) |->
        [gt_slug |-> PoolRule[dataset[i].p].slug,
         pred_slug |-> PoolVertical[dataset[i].p].slug,
         conf |-> PoolVertical[dataset[i].p].conf,
         ticket_id |-> dataset[i].id]]

\* A variant that reports no precision as zero.
Precision_ZeroWhenNone(correct, n_assigned) ==
    IF n_assigned # 0 THEN Some(<<correct, n_assigned>>) ELSE Some(<<0, 1>>)

\* (correct / n_assigned) if n_assigned else None: the quotient as the pair
\* of its terms
Precision(correct, n_assigned) ==
    IF n_assigned # 0 THEN Some(<<correct, n_assigned>>) ELSE None

\* one entry of by_threshold
ThresholdRow(preds, th, total) ==
    LET assigned == SelectSeq(preds, LAMBDA r : r.pred_slug # NoStr /\ r.conf >= th)
        correct == Len(SelectSeq(assigned, LAMBDA r : r.pred_slug = r.gt_slug))
    IN  [threshold |-> th,
         precision |-> Precision(correct, Len(assigned)),
         coverage |-> <<Len(assigned), total>>,
         n_assigned |-> Len(assigned),
         correct_assigned |-> correct,
         total_labeled |-> total]

calibrate_precision_coverage(days, sources) ==
    LET srcs == IF sources = {} THEN DefaultSources ELSE sources
        dataset == _iter_labeled_examples(srcs, days)
        preds == Predictions(dataset)
    IN  /\ result' =
             IF Len(dataset) = 0
             THEN [op |-> "calibrate_precision_coverage", days |-> days, sources |-> srcs,
                   total_labeled |-> 0, by_threshold |-> <<>>, note |-> TRUE]
             ELSE [op |-> "calibrate_precision_coverage", days |-> days, sources |-> srcs,
                   total_labeled |-> Len(dataset),
                   by_threshold |-> [i \in 1..Len(thresholds) |->
                                       ThresholdRow(preds, thresholds[i], Len(dataset))],
                   note |-> FALSE]
        /\ UNCHANGED <<tickets, tpv, gold, emb, theme_rows, cleanVars, typeVars, vertVars, extVars>>

CalDays == {NoDays, 0, 30, 90}

\* sources=None and sources=[] are the empty set
CalSources == { {}, {"jira"}, {"zendesk"}, {"slack", "zendesk"} }

\* the longest store of the calibration
MaxCalTickets == 3

InitCal ==
    /\ \E n \in 0..MaxCalTickets : \E ps \in [1..n -> 1..Len(TicketPool)] :
          tickets = [i \in 1..n |-> [id |-> i, p |-> ps[i], type |-> "unknown"]]
    /\ tpv = {}
    /\ gold = {}
    /\ emb = {}
    /\ theme_rows = 0
    /\ result = [op |-> "none"]
    /\ CleanIdle
    /\ TypeIdle
    /\ VertIdle
    /\ ExtIdle

Calibrate == \E days \in CalDays, sources \in CalSources :
                calibrate_precision_coverage(days, sources)

NextCal == Calibrate

SpecCal == InitCal /\ [][NextCal]_vars

\* The tickets of the store that the call of the result counts as ground
\* truth, and those of them the classifier assigns at a threshold.
ClaimLabeled ==
    {i \in 1..Len(tickets) :
        /\ Payload(tickets[i]).source \in result.sources
        /\ (result.days = NoDays \/ result.days <= 0 \/ InWindow(tickets[i], result.days))
        /\ PoolRule[tickets[i].p].slug # NoStr}

ClaimAssigned(th) ==
    {i \in ClaimLabeled : /\ PoolVertical[tickets[i].p].slug # NoStr
                          /\ PoolVertical[tickets[i].p].conf >= th}

\* C12: for every threshold of the sweep the precision is undefined (None,
\* not zero) exactly when no prediction has a confidence of the threshold or
\* more, and is correct_assigned / n_assigned otherwise; the coverage is
\* n_assigned / total_labeled in both cases; with no ground truth the result
\* is the note with an empty by_threshold, and no quotient is taken.
C12_PrecisionUndefined ==
    result.op = "calibrate_precision_coverage" =>
        /\ result.total_labeled = Cardinality(ClaimLabeled)
        /\ ClaimLabeled = {} <=> result.note
        /\ result.note => result.by_threshold = <<>>
        /\ ~result.note =>
              /\ Len(result.by_threshold) = Len(thresholds)
              /\ \A i \in 1..Len(thresholds) :
                    LET row == result.by_threshold[i]
                        n == Cardinality(ClaimAssigned(thresholds[i]))
                        ok == Cardinality({j \in ClaimAssigned(thresholds[i]) :
                                  PoolVertical[tickets[j].p].slug = PoolRule[tickets[j].p].slug})
                    IN  /\ row.threshold = thresholds[i]
                        /\ row.n_assigned = n
                        /\ row.correct_assigned = ok
                        /\ row.precision = None <=> n = 0
                        /\ n # 0 => row.precision = Some(<<ok, n>>)
                        /\ row.coverage = <<n, Cardinality(ClaimLabeled)>>
                        /\ row.coverage[2] # 0

\* A sweep over two labeled tickets has a threshold that one prediction
\* clears, with a precision, and a higher one that none clears, with none.
C12_Witness ==
    /\ result.op = "calibrate_precision_coverage"
    /\ result.total_labeled = 2
    /\ \E i, j \in 1..Len(thresholds) :
          /\ result.by_threshold[i].precision = Some(<<2, 2>>)
          /\ result.by_threshold[j].precision = None
          /\ result.by_threshold[j].coverage = <<0, 2>>

(***************************************************************************)
(* services/review.py: the stratified review sample.                       *)
(***************************************************************************)
\* round(float(v_conf or 0.0), 4) in ten-thousandths: c is 15000 times the
\* confidence, and 2c/3 is never half way between two integers
Round4(c) == (2 * c + 1) \div 3

\* seq[:n] as Python slices: a negative n drops the last -n elements
PySlice(seq, n) ==
    IF n >= 0 THEN SubSeq(seq, 1, Min2(n, Len(seq)))
    ELSE SubSeq(seq, 1, Max2(Len(seq) + n, 0))

\* the orders random.shuffle may leave a list in
Shuffles(seq) ==
    { [i \in 1..Len(seq) |-> seq[perm[i]]] :
        perm \in { f \in [1..Len(seq) -> 1..Len(seq)] :
                     \A i, j \in 1..Len(seq) : i # j => f[i] # f[j] } }

\* rows: one for every ticket of the window, with the rounded confidence
SampleRowsOf(days) ==
    LET ts == SelectSeq(tickets, LAMBDA t : InWindow(t, days))
    IN  [i \in 1..Len(ts) |->
            [ticket_id |-> ts[i].id,
             pred_vertical_slug |-> IF PoolVertical[ts[i].p].slug = NoStr THEN ""
                                    ELSE PoolVertical[ts[i].p].slug,
             confidence |-> Round4(PoolVertical[ts[i].p].conf)]]

InBin(r, bin) == r.confidence >= bin[1] /\ r.confidence < bin[2]

\* the samples the loop over bins_list[i..] may add to sampled
RECURSIVE SampleBins(_, _, _, _, _)
SampleBins(rows, per_bin, bins_list, i, sampled) ==
    IF i > Len(bins_list) THEN {sampled}
    ELSE UNION { SampleBins(rows, per_bin, bins_list, i + 1,
                            sampled \o PySlice(bucket, per_bin)) :
                   bucket \in Shuffles(SelectSeq(rows, LAMBDA r : InBin(r, bins_list[i]))) }

_sample_rows(days, per_bin, bins_list) ==
    /\ \E sampled \in SampleBins(SampleRowsOf(days), per_bin, bins_list, 1, <<>>) :
          result' = [op |-> "_sample_rows", per_bin |-> per_bin,
                     bins_list |-> bins_list, sampled |-> sampled]
    /\ UNCHANGED <<tickets, tpv, gold, emb, theme_rows, cleanVars, typeVars, vertVars, extVars>>

\* [(0.6, 0.7), (0.7, 0.8), (0.8, 0.9), (0.9, 1.01)] in ten-thousandths
DefaultBins == << <<6000, 7000>>, <<7000, 8000>>, <<8000, 9000>>, <<9000, 10100>> >>

\* the bins a request may configure: the default, one bin, two that overlap
SampleBinLists ==
    { DefaultBins,
      << <<9000, 10100>> >>,
      << <<8000, 10100>>, <<9000, 10100>> >> }

SamplePerBins == {-1, 0, 1, 2}

SampleDays == {30, 90}

\* the longest store of the review sample
MaxSampleTickets == 3

InitSample ==
    /\ \E n \in 0..MaxSampleTickets : \E ps \in [1..n -> 1..Len(TicketPool)] :
          tickets = [i \in 1..n |-> [id |-> i, p |-> ps[i], type |-> "unknown"]]
    /\ tpv = {}
    /\ gold = {}
    /\ emb = {}
    /\ theme_rows = 0
    /\ result = [op |-> "none"]
    /\ CleanIdle
    /\ TypeIdle
    /\ VertIdle
    /\ ExtIdle

Sample == \E days \in SampleDays, per_bin \in SamplePerBins,
             bins_list \in SampleBinLists :
            _sample_rows(days, per_bin, bins_list)

NextSample == Sample

SpecSample == InitSample /\ [][NextSample]_vars

\* C13: for every per_bin and every configured list of bins, the sample
\* _sample_rows returns holds no more than per_bin rows of any configured
\* bin.
C13_PerBinCap ==
    result.op = "_sample_rows" =>
        \A b \in 1..Len(result.bins_list) :
            Cardinality({i \in 1..Len(result.sampled) :
                            InBin(result.sampled[i], result.bins_list[b])})
                <= result.per_bin

(***************************************************************************)
(* services/insights.py, suggest_themes: the priority score of the themes  *)
(* of a build.  A theme is given by the rows of its tickets: the age in    *)
(* days of source_updated_at and of created_at (NoAge for NULL) and the    *)
(* priority.                                                               *)
(***************************************************************************)
HighPriorityWords ==
    << <<"p","0">>, <<"p","1">>, <<"b","l","o","c","k","e","r">>,
       <<"c","r","i","t","i","c","a","l">>, <<"h","i","g","h">> >>

\* (r.source_updated_at or r.created_at or now) >= week_ago
IsRecent(r) ==
    IF r.updated # NoAge THEN r.updated <= 7
    ELSE IF r.created # NoAge THEN r.created <= 7
    ELSE TRUE

\* any(p in pr for p in ["p0", "p1", "blocker", "critical", "high"])
IsHighPriority(r) ==
    \E i \in 1..Len(HighPriorityWords) : Contains(Lower(r.priority), HighPriorityWords[i])

\* max((th.get("size", 0) for th in themes), default=1) or 1
MaxSize(themes) ==
    LET sizes == {Len(themes[i].rows) : i \in 1..Len(themes)}
        top == CHOOSE m \in sizes : \A n \in sizes : n <= m
    IN  IF sizes = {} \/ top = 0 THEN 1 ELSE top

\* A variant that takes the recency over the largest theme.
ScoreTerms_RecencyOverMax(size, max_size, recent_7d, high_priority) ==
    <<6000 * size * size + 3000 * recent_7d * size + 1000 * high_priority * max_size,
      max_size * size>>

\* 10000 * (0.6 * size / max_size + 0.3 * recent_7d / size
\* + 0.1 * high_priority / size) as the numerator and the denominator of one
\* quotient; size is positive where the score is taken
ScoreTerms(size, max_size, recent_7d, high_priority) ==
    <<6000 * size * size + 3000 * recent_7d * max_size + 1000 * high_priority * max_size,
      max_size * size>>

\* round(float(score), 4) in ten-thousandths: the nearest integers of
\* nd[1] / nd[2], both of them where the quotient lies half way
RoundScore(nd) ==
    {q \in {nd[1] \div nd[2], nd[1] \div nd[2] + 1} :
        2 * (q * nd[2] - nd[1]) <= nd[2] /\ 2 * (nd[1] - q * nd[2]) <= nd[2]}

\* suggestions.sort(key=lambda x: x["score"], reverse=True): stable
RECURSIVE SortByScore(_)
SortByScore(sugs) ==
    IF sugs = <<>> THEN <<>>
    ELSE LET rest == SortByScore(Tail(sugs))
             pos == Cardinality({i \in 1..Len(rest) : rest[i].score > Head(sugs).score})
         IN  SubSeq(rest, 1, pos) \o <<Head(sugs)>> \o SubSeq(rest, pos + 1, Len(rest))

\* th.get("type", "mixed")
ThemeType(th) == IF "type" \in DOMAIN th THEN th.type ELSE "mixed"

\* the template of the suggested action, named by what it asks for
SuggestedAction(typ) ==
    IF typ = "issue" THEN "Prioritize a bugfix sprint for"
    ELSE IF typ = "feature_request" THEN "Scope an epic and RFC for"
    ELSE "Triage and split theme into fixes and features"

\* the suggestions of themes[i..]; a theme without tickets gives none
RECURSIVE Suggestions(_, _, _)
Suggestions(themes, max_size, i) ==
    IF i > Len(themes) THEN {<<>>}
    ELSE IF themes[i].rows = <<>> THEN Suggestions(themes, max_size, i + 1)
    ELSE LET rows == themes[i].rows
             size == Len(rows)
             recent_7d == Cardinality({j \in 1..size : IsRecent(rows[j])})
             high_priority == Cardinality({j \in 1..size : IsHighPriority(rows[j])})
         IN  { <<[label |-> themes[i].label, type |-> ThemeType(themes[i]),
                  size |-> size, score |-> score,
                  recent_7d |-> recent_7d, high_priority |-> high_priority,
                  suggested_action |-> SuggestedAction(ThemeType(themes[i]))]>> \o rest :
                 score \in RoundScore(ScoreTerms(size, max_size, recent_7d, high_priority)),
                 rest \in Suggestions(themes, max_size, i + 1) }

suggest_themes(themes, top_n) ==
    \E sugs \in Suggestions(themes, MaxSize(themes), 1) :
        sg_out' = Some([top_n |-> top_n,
                        suggestions |-> IF top_n > 0 THEN Clip(SortByScore(sugs), top_n)
                                        ELSE SortByScore(sugs)])

\* the rows a theme's tickets may have
SuggestRows ==
    { [updated |-> 3, created |-> 30, priority |-> <<"H","i","g","h">>],
      [updated |-> 30, created |-> 3, priority |-> <<>>],
      [updated |-> NoAge, created |-> 3, priority |-> <<"P","1">>],
      [updated |-> NoAge, created |-> NoAge, priority |-> <<"l","o","w">>] }

\* the most tickets of a theme of the builds scored, the theme of ten apart
MaxSuggestSize == 2

\* a theme of ten tickets: five recent, two of them of high priority
TenTickets ==
    [i \in 1..10 |->
        IF i <= 2 THEN [updated |-> 3, created |-> 30, priority |-> <<"H","i","g","h">>]
        ELSE IF i <= 5 THEN [updated |-> 7, created |-> 7, priority |-> <<"n","o","r","m","a","l">>]
        ELSE [updated |-> 30, created |-> 3, priority |-> <<>>]]

SuggestThemeRows ==
    UNION {[1..m -> SuggestRows] : m \in 0..MaxSuggestSize} \cup {TenTickets}

\* the builds scored: of one theme and of two
SuggestInputs ==
    { <<[label |-> 0, rows |-> a]>> : a \in SuggestThemeRows }
    \cup { <<[label |-> 0, rows |-> a], [label |-> 1, rows |-> b]>> :
              a, b \in SuggestThemeRows }

\* top_n: int = 5
TOP_SUGGESTIONS == 5

SuggestTopNs == {-1, 0, 1, TOP_SUGGESTIONS}

InitSuggest ==
    /\ sg_in \in SuggestInputs
    /\ sg_out = None
    /\ CleanIdle
    /\ TypeIdle
    /\ VertIdle
    /\ StoreIdle
    /\ RaceIdle
    /\ LoadIdle
    /\ CacheIdle
    /\ SyncIdle
    /\ FilterIdle
    /\ ReviewIdle

Suggest ==
    /\ sg_out = None
    /\ \E top_n \in SuggestTopNs : suggest_themes(sg_in, top_n)
    /\ UNCHANGED <<sg_in, cleanVars, typeVars, vertVars, storeVars, raceVars, loadVars, cacheVars,
                   syncVars, filterVars, reviewVars>>

NextSuggest == Suggest

SpecSuggest == InitSuggest /\ [][NextSuggest]_vars

\* The largest theme of the build that was scored.
ClaimMaxSize == MaxSize(sg_in)

\* C14: every suggestion's score is 0.6 * (size / max_size) + 0.3 *
\* (recent_7d / size) + 0.1 * (high_priority / size) rounded to 4 decimals,
\* with recent_7d <= size and high_priority <= size, so that the score lies
\* in [0, 1]; for size = 10, max_size = 10, recent_7d = 5 and high_priority
\* = 2 the score is 0.77.
C14_ScoreFormula ==
    sg_out # None =>
        \A i \in 1..Len(sg_out[1].suggestions) :
            LET s == sg_out[1].suggestions[i]
                num == 6000 * s.size * s.size + 3000 * s.recent_7d * ClaimMaxSize
                         + 1000 * s.high_priority * ClaimMaxSize
                den == ClaimMaxSize * s.size
            IN  /\ s.size > 0
                /\ s.recent_7d <= s.size
                /\ s.high_priority <= s.size
                /\ 2 * (s.score * den - num) <= den
                /\ 2 * (num - s.score * den) <= den
                /\ s.score >= 0
                /\ s.score <= 10000
                /\ (/\ s.size = 10
                    /\ ClaimMaxSize = 10
                    /\ s.recent_7d = 5
                    /\ s.high_priority = 2) => s.score = 7700

\* The theme of ten tickets, five recent and two of high priority, has been
\* scored next to a smaller theme.
C14_Witness ==
    /\ sg_out # None
    /\ Len(sg_out[1].suggestions) = 2
    /\ \E i \in 1..2 :
          /\ sg_out[1].suggestions[i].size = 10
          /\ sg_out[1].suggestions[i].recent_7d = 5
          /\ sg_out[1].suggestions[i].high_priority = 2
          /\ sg_out[1].suggestions[i].score = 7700
    /\ \E i \in 1..2 :
          /\ sg_out[1].suggestions[i].size = 2
          /\ sg_out[1].suggestions[i].recent_7d = 1

(***************************************************************************)
(* Concurrent pipeline runs.  Each run is build_themes in its own session  *)
(* (one request thread each); its steps are the places where it reads or   *)
(* writes the database: the classification of step (1), the commit of      *)
(* insights.py:80, the lookup of _ensure_embeddings and its commit.  A     *)
(* query sees what is committed when it runs; a commit inserts the objects *)
(* the session added and fails on the unique ticket_id; a run that raised  *)
(* stays at the step that failed.                                          *)
(***************************************************************************)
Runs == {1, 2}

\* the rows a session changed or added, against the table as it is now
CommitFails(s, table) ==
    \/ \E i, j \in 1..Len(s.pending) :
          i < j /\ s.pending[i].ticket_id = s.pending[j].ticket_id
    \/ \E i \in 1..Len(s.pending) : \E r \in table : r.ticket_id = s.pending[i].ticket_id

\* the table after the flush of s: the rows s loaded and changed are
\* updated by key, the objects it added are inserted
Flushed(s, snapshot, table) ==
    LET changed == s.rows \ snapshot
    IN  {r \in table : ~\E c \in changed : c.ticket_id = r.ticket_id}
        \cup changed \cup Range(s.pending)

\* build_themes up to _classify_and_count: the run has its tickets and a
\* session with the assignments to write
RunClassify(r, days, include_internal) ==
    /\ runs[r].pc = "start"
    /\ LET ts == _tickets_since_days(days, include_internal)
       IN  runs' = [runs EXCEPT ![r] =
                IF ts = <<>>
                THEN [pc |-> "done", raised |-> ""]
                ELSE [pc |-> "commit", raised |-> "",
                      ids |-> {ts[j].id : j \in 1..Len(ts)},
                      snapshot |-> tpv,
                      s |-> _classify_and_count(ts).s]]
    /\ UNCHANGED <<storeVars, cleanVars, typeVars, vertVars, suggestVars, loadVars, cacheVars, syncVars, filterVars, reviewVars>>

\* session.commit() of insights.py:80
RunCommit(r) ==
    /\ runs[r].pc = "commit"
    /\ runs[r].raised = ""
    /\ IF CommitFails(runs[r].s, tpv)
       THEN /\ runs' = [runs EXCEPT ![r].raised = "IntegrityError"]
            /\ UNCHANGED <<tickets, tpv>>
       ELSE /\ tpv' = Flushed(runs[r].s, runs[r].snapshot, tpv)
            /\ tickets' = [i \in 1..Len(tickets) |->
                             IF tickets[i].id \in runs[r].ids
                             THEN [tickets[i] EXCEPT !.type = PoolType[tickets[i].p]]
                             ELSE tickets[i]]
            /\ runs' = [runs EXCEPT ![r] = [pc |-> "embed", raised |-> "",
                                            ids |-> runs[r].ids]]
    /\ UNCHANGED <<gold, emb, theme_rows, result, cleanVars, typeVars, vertVars,
                   suggestVars, loadVars, cacheVars, syncVars, filterVars, reviewVars>>

\* the first loop of _ensure_embeddings: the tickets without a record
RunEmbedRead(r) ==
    /\ runs[r].pc = "embed"
    /\ runs' = [runs EXCEPT ![r] =
            [pc |-> "insert", raised |-> "", ids |-> runs[r].ids,
             need |-> {id \in runs[r].ids : ~\E e \in emb : e.ticket_id = id}]]
    /\ UNCHANGED <<storeVars, cleanVars, typeVars, vertVars, suggestVars, loadVars, cacheVars, syncVars, filterVars, reviewVars>>

\* session.add(te) for every ticket in need, and session.commit()
RunEmbedCommit(r) ==
    /\ runs[r].pc = "insert"
    /\ runs[r].raised = ""
    /\ IF \E e \in emb : e.ticket_id \in runs[r].need
       THEN /\ runs' = [runs EXCEPT ![r].raised = "IntegrityError"]
            /\ UNCHANGED emb
       ELSE /\ emb' = emb \cup { [ticket_id |-> tickets[i].id,
                                  vector |-> embed_texts(PoolText[tickets[i].p])] :
                                   i \in {j \in 1..Len(tickets) :
                                            tickets[j].id \in runs[r].need} }
            /\ runs' = [runs EXCEPT ![r] = [pc |-> "done", raised |-> ""]]
    /\ UNCHANGED <<tickets, tpv, gold, theme_rows, result, cleanVars, typeVars,
                   vertVars, suggestVars, loadVars, cacheVars, syncVars, filterVars, reviewVars>>

RaceLists == { <<1, 2>>, <<1, 3>>, <<4, 2>> }

InitRace ==
    /\ \E ps \in RaceLists :
          tickets = [i \in 1..Len(ps) |-> [id |-> i, p |-> ps[i], type |-> "unknown"]]
    /\ tpv = {}
    /\ gold = {}
    /\ emb = {}
    /\ theme_rows = 0
    /\ result = [op |-> "none"]
    /\ runs = [r \in Runs |-> [pc |-> "start", raised |-> ""]]
    /\ CleanIdle
    /\ TypeIdle
    /\ VertIdle
    /\ SuggestIdle
    /\ LoadIdle
    /\ CacheIdle
    /\ SyncIdle
    /\ FilterIdle
    /\ ReviewIdle

Classify == \E r \in Runs, days \in BuildDays, include_internal \in BOOLEAN :
                RunClassify(r, days, include_internal)

Commit == \E r \in Runs : RunCommit(r)

EmbedRead == \E r \in Runs : RunEmbedRead(r)

EmbedCommit == \E r \in Runs : RunEmbedCommit(r)

NextRace == Classify \/ Commit \/ EmbedRead \/ EmbedCommit

SpecRace == InitRace /\ [][NextRace]_vars

\* C15: when two runs write the classifications or the embeddings of
\* overlapping ticket sets at once, both runs complete without an error, and
\* every ticket has at most one stored record of each kind: no run fails or
\* loses its batch because the other run wrote first.
C15_LastWriteWins ==
    runs # None =>
        /\ \A r \in Runs : runs[r].raised = ""
        /\ \A a, b \in emb : a.ticket_id = b.ticket_id => a = b
        /\ \A a, b \in tpv : a.ticket_id = b.ticket_id => a = b

(***************************************************************************)
(* nlp/embeddings.py and nlp/product_verticals.py: the lazily loaded       *)
(* globals.  The endpoints run in the threads of the server's pool; a      *)
(* thread's steps are its reads and its writes of the globals.  A call of  *)
(* classify_product_vertical runs _ensure_prototypes and then embed_texts, *)
(* a call of embed_texts alone (a query, an embedding of a build) runs     *)
(* get_model.                                                              *)
(***************************************************************************)
\* the threads of the pool, and the count up to which loads are told apart
MaxThreads == 2

MaxLoads == 3

Threads == 1..MaxThreads

\* the thread goes on to pc
Goto(t, pc) == threads' = [threads EXCEPT ![t] = pc]

\* a thread takes up a call
ThreadCall(t) ==
    /\ threads[t] = "idle"
    /\ \E pc \in {"proto_check", "model_check"} : Goto(t, pc)
    /\ UNCHANGED singletons

\* _ensure_prototypes: if _PROTO_VECS is not None: return
ProtoCheck(t) ==
    /\ threads[t] = "proto_check"
    /\ Goto(t, IF singletons.protos THEN "model_check" ELSE "proto_model_check")
    /\ UNCHANGED singletons

\* get_model: if _model is None, in embed_texts(proto_texts)
ProtoModelCheck(t) ==
    /\ threads[t] = "proto_model_check"
    /\ Goto(t, IF singletons.model THEN "proto_store" ELSE "proto_model_load")
    /\ UNCHANGED singletons

\* _model = SentenceTransformer(...)
ProtoModelLoad(t) ==
    /\ threads[t] = "proto_model_load"
    /\ singletons' = [singletons EXCEPT !.model = TRUE,
                                        !.model_loads = Min2(@ + 1, MaxLoads)]
    /\ Goto(t, "proto_store")

\* _PROTO_VECS = vecs
ProtoStore(t) ==
    /\ threads[t] = "proto_store"
    /\ singletons' = [singletons EXCEPT !.protos = TRUE,
                                        !.proto_loads = Min2(@ + 1, MaxLoads)]
    /\ Goto(t, "model_check")

\* get_model: if _model is None, in embed_texts(texts)
ModelCheck(t) ==
    /\ threads[t] = "model_check"
    /\ Goto(t, IF singletons.model THEN "idle" ELSE "model_load")
    /\ UNCHANGED singletons

ModelLoad(t) ==
    /\ threads[t] = "model_load"
    /\ singletons' = [singletons EXCEPT !.model = TRUE,
                                        !.model_loads = Min2(@ + 1, MaxLoads)]
    /\ Goto(t, "idle")

InitLoad ==
    /\ singletons = [model |-> FALSE, model_loads |-> 0,
                     protos |-> FALSE, proto_loads |-> 0]
    /\ threads = [t \in Threads |-> "idle"]
    /\ CleanIdle
    /\ TypeIdle
    /\ VertIdle
    /\ StoreIdle
    /\ SuggestIdle
    /\ RaceIdle
    /\ CacheIdle
    /\ SyncIdle
    /\ FilterIdle
    /\ ReviewIdle

Call == \E t \in Threads : ThreadCall(t)

CheckPrototypes == \E t \in Threads : ProtoCheck(t)

CheckModelForPrototypes == \E t \in Threads : ProtoModelCheck(t)

LoadModelForPrototypes == \E t \in Threads : ProtoModelLoad(t)

StorePrototypes == \E t \in Threads : ProtoStore(t)

CheckModel == \E t \in Threads : ModelCheck(t)

LoadModel == \E t \in Threads : ModelLoad(t)

NextLoad ==
    /\ \/ Call
       \/ CheckPrototypes
       \/ CheckModelForPrototypes
       \/ LoadModelForPrototypes
       \/ StorePrototypes
       \/ CheckModel
       \/ LoadModel
    /\ UNCHANGED <<cleanVars, typeVars, vertVars, storeVars, suggestVars, raceVars,
                   cacheVars, syncVars, filterVars, reviewVars>>

SpecLoad == InitLoad /\ [][NextLoad]_vars

\* C16: the embedding model and the prototype vectors are loaded at most
\* once in a process and reused by every later call, also when the first
\* uses come from several threads at once.
C16_LoadedOnce ==
    singletons # None =>
        /\ singletons.model_loads <= 1
        /\ singletons.proto_loads <= 1

(***************************************************************************)
(* services/cache.py and the endpoint /insights/themes/v2 of main.py: the  *)
(* cache of the filtered insight results.  A result is named by the call   *)
(* it was built for, the version of the data it was built from and the     *)
(* time it was built at.                                                   *)
(***************************************************************************)
\* TTLCache(ttl_seconds=120)
TTL == 120

DigitChars == <<"0","1","2","3","4","5","6","7","8","9">>

\* str(n) of an integer n >= 0
RECURSIVE IntStr(_)
IntStr(n) ==
    IF n < 10 THEN <<DigitChars[n + 1]>>
    ELSE IntStr(n \div 10) \o <<DigitChars[(n % 10) + 1]>>

Colon == <<":">>

\* f"themes:{days}:{k}:{source}:{kind}:{vertical}:{int(include_internal)}"
CacheKey(c) ==
    <<"t","h","e","m","e","s">> \o Colon \o IntStr(c.days) \o Colon \o IntStr(c.k)
        \o Colon \o c.source \o Colon \o c.kind \o Colon \o c.vertical \o Colon
        \o IntStr(IF c.include_internal THEN 1 ELSE 0)

\* TTLCache.get finds a value: the key is stored and time.time() > expires
\* does not hold
CacheHit(key) == key \in DOMAIN cache /\ ~(now > cache[key].expires)

\* TTLCache.set
CacheSet(key, value) ==
    [x \in DOMAIN cache \cup {key} |->
        IF x = key THEN [expires |-> now + TTL, value |-> value] ELSE cache[x]]

\* insights_themes_v2: the cached value, or the result of
\* build_themes_filtered for the call, which is then cached
insights_themes_v2(c) ==
    /\ IF CacheHit(CacheKey(c))
       THEN /\ result' = [op |-> "insights_themes_v2", call |-> c, cached |-> TRUE,
                          data |-> cache[CacheKey(c)].value]
            /\ UNCHANGED cache
       ELSE /\ result' = [op |-> "insights_themes_v2", call |-> c, cached |-> FALSE,
                          data |-> [call |-> c, version |-> data_version,
                                    built_at |-> now]]
            /\ cache' = CacheSet(CacheKey(c), [call |-> c, version |-> data_version,
                                               built_at |-> now])
    /\ UNCHANGED <<now, data_version>>

\* the latest time and the most writes of the runs of the cache
MaxTime == 240

MaxWrites == 2

\* time passes
Elapse(d) ==
    /\ now + d <= MaxTime
    /\ now' = now + d
    /\ UNCHANGED <<cache, data_version, result>>

\* a sync, a build or a label submission writes to the store
WriteData ==
    /\ data_version < MaxWrites
    /\ data_version' = data_version + 1
    /\ UNCHANGED <<cache, now, result>>

AllChars == <<"a","l","l">>

\* the calls of the endpoint: the default, a narrower one, and two whose
\* source and kind hold a colon
CacheCalls ==
    { [days |-> 30, k |-> 12, source |-> AllChars, kind |-> AllChars,
       vertical |-> AllChars, include_internal |-> FALSE],
      [days |-> 7, k |-> 12, source |-> <<"j","i","r","a">>, kind |-> AllChars,
       vertical |-> AllChars, include_internal |-> TRUE],
      [days |-> 30, k |-> 12, source |-> <<"j","i","r","a">>,
       kind |-> <<"i","s","s","u","e",":","a","l","l">>,
       vertical |-> AllChars, include_internal |-> FALSE],
      [days |-> 30, k |-> 12, source |-> <<"j","i","r","a",":","i","s","s","u","e">>,
       kind |-> AllChars, vertical |-> AllChars, include_internal |-> FALSE] }

Elapses == {60, 61}

InitCache ==
    /\ CacheIdle
    /\ CleanIdle
    /\ TypeIdle
    /\ VertIdle
    /\ StoreIdle
    /\ SuggestIdle
    /\ RaceIdle
    /\ LoadIdle
    /\ SyncIdle
    /\ FilterIdle
    /\ ReviewIdle

GetThemes == \E c \in CacheCalls : insights_themes_v2(c)

Wait == \E d \in Elapses : Elapse(d)

NextCache ==
    /\ \/ GetThemes
       \/ Wait
       \/ WriteData
    /\ UNCHANGED <<tickets, tpv, gold, emb, theme_rows, cleanVars, typeVars, vertVars,
                   suggestVars, raceVars, loadVars, syncVars, filterVars, reviewVars>>

SpecCache == InitCache /\ [][NextCache]_vars

\* C17: the cache is time-expired only: a value stored for a call is
\* returned unchanged by every get for that call until 120 seconds have
\* passed since it was set, whatever is written meanwhile; after that the
\* get misses and the result is rebuilt; and a value stored for one call is
\* never returned for another.
C17_TimeExpiredOnly ==
    [][\A c \in CacheCalls :
          insights_themes_v2(c) =>
              /\ result'.data.call = c
              /\ result'.cached => now <= result'.data.built_at + TTL
              /\ ~result'.cached => /\ result'.data.built_at = now
                                    /\ result'.data.version = data_version
              /\ \A key \in DOMAIN cache :
                    (cache[key].value.call = c /\ now <= cache[key].value.built_at + TTL)
                        => result'.cached /\ result'.data = cache[key].value]_vars

(***************************************************************************)
(* sync.py and upsert_ticket of db.py: a sync run of one source.  A ticket *)
(* that came by a sync carries the external_id of its item.                *)
(***************************************************************************)
\* the most tickets and the longest batch of the sync runs
MaxTickets == 3

MaxBatch == 2

ExternalIds == {1, 2}

\* the items a fetch of the source may give: an external_id and the rest of
\* the payload
SyncItems(name) ==
    { [external_id |-> e, p |-> p] :
        e \in ExternalIds, p \in {q \in 1..Len(TicketPool) : TicketPool[q].source = name} }

Batches(name) == UNION { [1..n -> SyncItems(name)] : n \in 0..MaxBatch }

\* the rows of tickets that a sync of the payloads ps leaves, one item each
Synced(ps) ==
    [i \in 1..Len(ps) |->
        [id |-> i, p |-> ps[i], type |-> "unknown",
         external_id |-> Cardinality({j \in 1..i :
                            TicketPool[ps[j]].source = TicketPool[ps[i]].source})]]

\* the session of a sync run: the rows it has set the fields of, and the
\* rows it has added; nothing is flushed before the commit
NewSyncSession == [set |-> <<>>, add |-> <<>>]

\* upsert_ticket: the query reads the table, never the rows added
upsert_ticket(s, name, it) ==
    LET existing == {i \in 1..Len(tickets) :
                        /\ Payload(tickets[i]).source = name
                        /\ tickets[i].external_id = it.external_id}
    IN  IF existing # {}
        THEN [s EXCEPT !.set = Append(@, [id |-> tickets[CHOOSE i \in existing : TRUE].id,
                                          p |-> it.p])]
        ELSE [s EXCEPT !.add = Append(@, it)]

RECURSIVE UpsertAll(_, _, _)
UpsertAll(s, name, items) ==
    IF items = <<>> THEN s
    ELSE UpsertAll(upsert_ticket(s, name, Head(items)), name, Tail(items))

\* the commit breaks uq_source_external: two added rows of one external_id
SyncViolation(s) ==
    \E i, j \in 1..Len(s.add) : i < j /\ s.add[i].external_id = s.add[j].external_id

\* the value the session has set last for the row id
LastSet(s, id) ==
    s.set[CHOOSE k \in 1..Len(s.set) :
             /\ s.set[k].id = id
             /\ \A m \in (k + 1)..Len(s.set) : s.set[m].id # id]

\* table tickets after the commit of the session; an item carries no type,
\* so the payload's type is "unknown"
SyncCommitted(s) ==
    [i \in 1..Len(tickets) |->
        IF \E k \in 1..Len(s.set) : s.set[k].id = tickets[i].id
        THEN [tickets[i] EXCEPT !.p = LastSet(s, tickets[i].id).p, !.type = "unknown"]
        ELSE tickets[i]]
    \o [k \in 1..Len(s.add) |->
            [id |-> Len(tickets) + k, p |-> s.add[k].p, type |-> "unknown",
             external_id |-> s.add[k].external_id]]

\* A variant in which a failed run forgets the watermark of its source.
SyncFailed_ForgetsWatermark(name, error) ==
    /\ result' = [op |-> "_sync_source", source |-> name, ok |-> FALSE, fetched |-> 0,
                  last_updated_at |-> NoWatermark, error |-> error]
    /\ tickets' = tickets
    /\ sync_state' = [sync_state EXCEPT ![name] = NoWatermark]

SyncFailed(name, error) ==
    /\ result' = [op |-> "_sync_source", source |-> name, ok |-> FALSE, fetched |-> 0,
                  last_updated_at |-> NoWatermark, error |-> error]
    /\ UNCHANGED <<tickets, sync_state>>

\* _sync_source: fetch_ok says whether fetch_fn returns the items or raises
_sync_source(name, items, fetch_ok) ==
    /\ LET since == IF sync_state[name] = NoWatermark THEN HISTORY_DAYS
                    ELSE sync_state[name]
           latest == LatestOf([i \in 1..Len(items) |-> TicketPool[items[i].p].age], since)
           s == UpsertAll(NewSyncSession, name, items)
       IN  IF ~fetch_ok THEN SyncFailed(name, "fetch")
           ELSE IF SyncViolation(s) THEN SyncFailed(name, "IntegrityError")
           ELSE /\ Len(tickets) + Len(s.add) <= MaxTickets
                /\ tickets' = SyncCommitted(s)
                /\ sync_state' = [sync_state EXCEPT ![name] = latest]
                /\ result' = [op |-> "_sync_source", source |-> name, ok |-> TRUE,
                              fetched |-> Len(items), last_updated_at |-> latest,
                              error |-> ""]
    /\ UNCHANGED <<tpv, gold, emb, theme_rows, cleanVars, typeVars, vertVars,
                   suggestVars, raceVars, loadVars, cacheVars, filterVars, reviewVars>>

(***************************************************************************)
(* The stored embeddings under builds, queries and sync runs.              *)
(***************************************************************************)
EmbLists == { <<1, 2>>, <<2, 3, 4>> }

InitEmb ==
    /\ \E ps \in EmbLists : tickets = Synced(ps)
    /\ tpv = {}
    /\ gold = {}
    /\ emb = {}
    /\ theme_rows = 0
    /\ result = [op |-> "none"]
    /\ CleanIdle
    /\ TypeIdle
    /\ VertIdle
    /\ ExtIdle

\* an insight build that asks for one cluster
Rebuild == \E days \in BuildDays, include_internal \in BOOLEAN :
              BuildThemes(days, 1, include_internal)

\* a query without filters
AskAgain == \E days \in QueryDays, include_internal \in BOOLEAN :
               answer_question(<<"f","x","?">>, days, 2, <<>>, <<>>, <<>>, include_internal)

\* a sync run of zendesk that fetched one item
Resync == \E it \in SyncItems("zendesk") : _sync_source("zendesk", <<it>>, TRUE)

NextEmb == Rebuild \/ AskAgain \/ Resync

SpecEmb == InitEmb /\ [][NextEmb]_vars

InitSync ==
    /\ StoreIdle
    /\ CleanIdle
    /\ TypeIdle
    /\ VertIdle
    /\ ExtIdle

sync_zendesk == \E items \in Batches("zendesk"), fetch_ok \in BOOLEAN :
                   _sync_source("zendesk", items, fetch_ok)

sync_jira == \E items \in Batches("jira"), fetch_ok \in BOOLEAN :
                _sync_source("jira", items, fetch_ok)

sync_slack == \E items \in Batches("slack"), fetch_ok \in BOOLEAN :
                 _sync_source("slack", items, fetch_ok)

NextSync == sync_zendesk \/ sync_jira \/ sync_slack

SpecSync == InitSync /\ [][NextSync]_vars

\* the tickets of ts with the identity (name, external_id)
ClaimStored(ts, name, external_id) ==
    {i \in 1..Len(ts) : Payload(ts[i]).source = name /\ ts[i].external_id = external_id}

\* the last item of the batch with the external_id
ClaimLastItem(items, external_id) ==
    items[CHOOSE k \in 1..Len(items) :
             /\ items[k].external_id = external_id
             /\ \A m \in (k + 1)..Len(items) : items[m].external_id # external_id]

\* C19: every sync run whose fetch returns its batch succeeds, and after it
\* exactly one ticket exists for the source and external_id of every item of
\* the batch, carrying the payload of the last such item; this also for a
\* batch that holds an external_id not yet stored more than once.
C19_UpsertDedups ==
    [][\A name \in Sources : \A items \in Batches(name) :
          _sync_source(name, items, TRUE) =>
              /\ result'.ok
              /\ \A k \in 1..Len(items) :
                    /\ Cardinality(ClaimStored(tickets', name, items[k].external_id)) = 1
                    /\ \A i \in ClaimStored(tickets', name, items[k].external_id) :
                          tickets'[i].p = ClaimLastItem(items, items[k].external_id).p]_vars

(***************************************************************************)
(* Stage B on a text without a keyword of the catalog.                     *)
(***************************************************************************)
\* The search text of the request holds no keyword of any catalog vertical.
ClaimNoKeyword ==
    \A i \in 1..Len(VERTICALS) :
        KwCount(i, VerticalText(pv_in.source, pv_in.title, pv_in.content,
                                pv_in.labels_csv, pv_in.project)) = 0

\* C20: when Stage A matches no rule and no keyword of any catalog vertical
\* occurs in the search text, classify_product_vertical returns no
\* assignment: slug None and confidence 0.0.
C20_NoSignalNoAssignment ==
    (/\ pv_out # None
     /\ ~ClaimProjectMatch
     /\ ~ClaimLabelMatch
     /\ ClaimNoKeyword)
        => /\ pv_out[1].slug = NoStr
           /\ pv_out[1].conf = 0

(***************************************************************************)
(* services/insights.py, build_themes_filtered, and the insight builds     *)
(* over stores whose tickets are of every type.                            *)
(***************************************************************************)
\* (t.get("product_vertical_slug") or "").lower() and
\* (t.get("product_vertical") or "").lower() of a ticket of the response
OutSlugLower(t) ==
    IF t.product_vertical_slug = NoStr THEN <<>>
    ELSE Lower(VERTICALS[CHOOSE i \in 1..Len(VERTICALS) :
                            VERTICALS[i].slug = t.product_vertical_slug].slug_chars)

OutNameLower(t) ==
    IF t.product_vertical = NoStr THEN <<>>
    ELSE Lower(VERTICALS[CHOOSE i \in 1..Len(VERTICALS) :
                            VERTICALS[i].name = t.product_vertical].name_chars)

\* A variant that does not look at the vertical.
PassesFilters_NoVertical(t, source, kind, vertical) ==
    /\ ~(/\ source # <<>>
         /\ Lower(source) # All
         /\ Lower(SourceChars(t.source)) # Lower(source))
    /\ ~(/\ kind # <<>>
         /\ \E ty \in TicketTypes : TypeChars(ty) = Lower(kind)
         /\ Lower(TypeChars(t.type)) # Lower(kind))

\* the ticket of a theme passes the filters; source, kind and vertical are
\* <<>> for None
PassesFilters(t, source, kind, vertical) ==
    /\ ~(/\ source # <<>>
         /\ Lower(source) # All
         /\ Lower(SourceChars(t.source)) # Lower(source))
    /\ ~(/\ kind # <<>>
         /\ \E ty \in TicketTypes : TypeChars(ty) = Lower(kind)
         /\ Lower(TypeChars(t.type)) # Lower(kind))
    /\ ~(/\ vertical # <<>>
         /\ Lower(vertical) # All
         /\ ~(Lower(vertical) = OutSlugLower(t) \/ Lower(vertical) = OutNameLower(t)))

\* new_themes: the themes with their tickets filtered, those left empty
\* dropped
RECURSIVE FilterThemes(_, _, _, _)
FilterThemes(themes, source, kind, vertical) ==
    IF themes = <<>> THEN <<>>
    ELSE LET th == Head(themes)
             filt == SelectSeq(th.tickets,
                               LAMBDA t : PassesFilters(t, source, kind, vertical))
         IN  (IF filt # <<>>
              THEN <<[th EXCEPT !.tickets = filt, !.size = Len(filt)]>>
              ELSE <<>>)
             \o FilterThemes(Tail(themes), source, kind, vertical)

\* the data build_themes_filtered makes of the data of build_themes
FilteredData(data, source, kind, vertical) ==
    IF data.themes = <<>> THEN data
    ELSE LET themes == SortBySize(FilterThemes(data.themes, source, kind, vertical))
         IN  [data EXCEPT !.themes = themes,
                          !.top_issues = pick_top(themes, "issue"),
                          !.top_features = pick_top(themes, "feature_request")]

build_themes_filtered(days, k, source, kind, vertical, include_internal) ==
    /\ build_themes(days, k, include_internal)
    /\ filtered' =
         IF result'.raised # "" THEN None
         ELSE Some([source |-> source, kind |-> kind, vertical |-> vertical,
                    built |-> result',
                    data |-> FilteredData(result', source, kind, vertical)])
    /\ UNCHANGED <<cleanVars, typeVars, vertVars, suggestVars, raceVars, loadVars,
                   cacheVars, syncVars, reviewVars>>

\* the columns of a ticket that suggest_themes reads again from the store:
\* the tickets of these stores have no priority and were created today
TicketRow(id) ==
    LET t == tickets'[CHOOSE i \in 1..Len(tickets') : tickets'[i].id = id]
    IN  [updated |-> Payload(t).age, created |-> 0, priority |-> <<>>]

\* the themes of a build as suggest_themes reads them
ThemeInputs(themes) ==
    [i \in 1..Len(themes) |->
        [label |-> themes[i].label, type |-> themes[i].type,
         rows |-> [j \in 1..Len(themes[i].tickets) |-> TicketRow(themes[i].tickets[j].id)]]]

\* GET /insights/theme_suggestions: suggest_themes over its own build
insights_theme_suggestions(days, k, top_n, include_internal) ==
    /\ build_themes(days, k, include_internal)
    /\ IF result'.raised # ""
       THEN sg_in' = None /\ sg_out' = None
       ELSE /\ sg_in' = ThemeInputs(result'.themes)
            /\ suggest_themes(ThemeInputs(result'.themes), top_n)
    /\ UNCHANGED <<cleanVars, typeVars, vertVars, raceVars, loadVars,
                   cacheVars, syncVars, filterVars, reviewVars>>

\* the most tickets of a store that is clustered into more than one theme
MaxSmall == 3

\* the stores of the builds: small ones of every type, and one of eleven
\* issues and a feature request
ThemeLists ==
    { <<3, 3>>, <<1, 2, 3>>, <<2, 2, 1>>,
      <<1, 4, 1, 1, 2, 1, 1, 1, 4, 1, 1, 1>> }

ThemeKs == {1, 2}

\* the numbers of clusters asked for: one alone for the large store
KsFor(n) == IF n > MaxSmall THEN {1} ELSE ThemeKs

ThemeDays == {90}

\* the filters of the calls: none, one of each sort, and all three
FilterCalls ==
    { [source |-> <<>>, kind |-> <<>>, vertical |-> <<>>],
      [source |-> <<"J","i","r","a">>, kind |-> <<>>, vertical |-> <<>>],
      [source |-> <<>>, kind |-> <<"I","s","s","u","e">>, vertical |-> <<>>],
      [source |-> <<>>, kind |-> <<>>,
       vertical |-> <<"F","X","-","S","e","r","v","i","c","e">>],
      [source |-> <<"z","e","n","d","e","s","k">>,
       kind |-> <<"f","e","a","t","u","r","e","_","r","e","q","u","e","s","t">>,
       vertical |-> <<"a","l","l">>] }

InitThemes ==
    /\ \E ps \in ThemeLists :
          tickets = [i \in 1..Len(ps) |-> [id |-> i, p |-> ps[i], type |-> "unknown"]]
    /\ tpv = {}
    /\ gold = {}
    /\ emb = {}
    /\ theme_rows = 0
    /\ result = [op |-> "none"]
    /\ CleanIdle
    /\ TypeIdle
    /\ VertIdle
    /\ ExtIdle

GetInsights ==
    \E days \in ThemeDays, k \in KsFor(Len(tickets)), include_internal \in BOOLEAN :
        BuildThemes(days, k, include_internal)

GetThemesFiltered ==
    \E days \in ThemeDays, k \in KsFor(Len(tickets)), include_internal \in BOOLEAN,
       f \in FilterCalls :
        build_themes_filtered(days, k, f.source, f.kind, f.vertical, include_internal)

GetThemeSuggestions ==
    \E days \in ThemeDays, k \in KsFor(Len(tickets)), include_internal \in BOOLEAN :
        insights_theme_suggestions(days, k, TOP_SUGGESTIONS, include_internal)

NextThemes == GetInsights \/ GetThemesFiltered

\* the insight builds and the suggestions over them
NextThemeSuggestions == GetInsights \/ GetThemeSuggestions

SpecThemeSuggestions == InitThemes /\ [][NextThemeSuggestions]_vars

SpecThemes == InitThemes /\ [][NextThemes]_vars

\* the number of the tickets of a theme of the response that are of the type
ClaimCount(th, kind) ==
    Cardinality({j \in 1..Len(th.tickets) : th.tickets[j].type = kind})

\* C21: the type of every theme of a build is feature_request when its
\* feature_request tickets strictly outnumber its issue tickets and issue
\* otherwise, ties included; tickets of type unknown do not vote.
C21_MajorityType ==
    ClaimBuilt =>
        \A i \in 1..Len(result.themes) :
            result.themes[i].type =
                IF ClaimCount(result.themes[i], "feature_request")
                      > ClaimCount(result.themes[i], "issue")
                THEN "feature_request" ELSE "issue"

\* A theme of an issue, a feature request and an unknown ticket has the type
\* issue: the counts tie and the unknown ticket has no vote.
C21_Witness ==
    /\ ClaimBuilt
    /\ \E i \in 1..Len(result.themes) :
          /\ ClaimCount(result.themes[i], "issue") = 1
          /\ ClaimCount(result.themes[i], "feature_request") = 1
          /\ ClaimCount(result.themes[i], "unknown") = 1
          /\ result.themes[i].type = "issue"

\* The sizes of the themes do not rise along the list.
ClaimSorted(themes) ==
    \A i, j \in 1..Len(themes) : i < j => themes[i].size >= themes[j].size

\* C22: the themes of a build_themes result, and the themes of a
\* build_themes_filtered result after the filtering, come by non-increasing
\* size.
C22_ThemesSorted ==
    /\ ClaimBuilt => ClaimSorted(result.themes)
    /\ filtered # None => ClaimSorted(filtered[1].data.themes)

\* The bucket of the second label is the larger one and comes first in the
\* result, and the filtered result keeps two themes of sizes 2 and 1.
C22_Witness ==
    /\ ClaimBuilt
    /\ filtered # None
    /\ filtered[1].built = result
    /\ Len(result.themes) = 2
    /\ result.themes[1].label = 1
    /\ result.themes[1].size = 2
    /\ result.themes[2].label = 0
    /\ Len(filtered[1].data.themes) = 2
    /\ filtered[1].data.themes[1].size = 2
    /\ filtered[1].data.themes[2].size = 1

\* The tickets of the type met when the themes of the result are scanned in
\* their order and the tickets of each theme in theirs: the places in the
\* scan, and the n-th of them.
ClaimScan == Flatten(result.themes)

ClaimHits(kind) == {i \in 1..Len(ClaimScan) : ClaimScan[i].type = kind}

ClaimNth(kind, n) ==
    CHOOSE i \in ClaimHits(kind) : Cardinality({m \in ClaimHits(kind) : m < i}) = n - 1

ClaimTopList(top, kind) ==
    /\ Len(top) <= 10
    /\ Len(top) = Min2(10, Cardinality(ClaimHits(kind)))
    /\ \A n \in 1..Len(top) :
          /\ top[n].type = kind
          /\ top[n] = ClaimScan[ClaimNth(kind, n)]
    /\ \A m, n \in 1..Len(top) : m # n => top[m].id # top[n].id

\* C23: top_issues and top_features of a build hold at most 10 tickets, all
\* of type issue and feature_request, and are the first 10 tickets of that
\* type met when the themes are scanned in their sorted order and the tickets
\* of each theme in order; no ticket stands twice in a list.
C23_TopLists ==
    ClaimBuilt =>
        /\ ClaimTopList(result.top_issues, "issue")
        /\ ClaimTopList(result.top_features, "feature_request")

\* A build over eleven issues and a feature request returns ten issues and
\* the feature request.
C23_Witness ==
    /\ ClaimBuilt
    /\ Cardinality(ClaimHits("issue")) = 11
    /\ Len(result.top_issues) = 10
    /\ Len(result.top_features) = 1

\* A filter is active when it is given and is not "all".
ClaimActive(x) == x # <<>> /\ Lower(x) # All

\* The ticket of the response is one the call of build_themes_filtered asks
\* for.
ClaimSurvives(t, call) ==
    /\ ClaimActive(call.source) => Lower(SourceChars(t.source)) = Lower(call.source)
    /\ (\E ty \in TicketTypes : TypeChars(ty) = Lower(call.kind))
          => TypeChars(t.type) = Lower(call.kind)
    /\ ClaimActive(call.vertical) =>
          \/ /\ t.product_vertical_slug # NoStr
             /\ OutSlugLower(t) = Lower(call.vertical)
          \/ /\ t.product_vertical # NoStr
             /\ OutNameLower(t) = Lower(call.vertical)

\* C24: in a build_themes_filtered result every ticket of every theme
\* satisfies all the active filters, no theme is without tickets, the size of
\* a theme is the number of its tickets, and top_issues and top_features hold
\* only tickets that stand in the filtered themes.
C24_FilteredThemes ==
    filtered # None =>
        LET call == filtered[1]
            data == filtered[1].data
        IN  /\ \A i \in 1..Len(data.themes) :
                  /\ data.themes[i].tickets # <<>>
                  /\ data.themes[i].size = Len(data.themes[i].tickets)
                  /\ \A j \in 1..Len(data.themes[i].tickets) :
                        ClaimSurvives(data.themes[i].tickets[j], call)
            /\ \A n \in 1..Len(data.top_issues) :
                  \E i \in 1..Len(data.themes) : \E j \in 1..Len(data.themes[i].tickets) :
                      data.themes[i].tickets[j] = data.top_issues[n]
            /\ \A n \in 1..Len(data.top_features) :
                  \E i \in 1..Len(data.themes) : \E j \in 1..Len(data.themes[i].tickets) :
                      data.themes[i].tickets[j] = data.top_features[n]

\* A call with the vertical filter has dropped a theme and shortened
\* another: the build gave two themes, the filtered result holds one theme
\* with fewer tickets than the build gave it.
C24_Witness ==
    /\ filtered # None
    /\ ClaimActive(filtered[1].vertical)
    /\ Len(filtered[1].built.themes) = 2
    /\ Len(filtered[1].data.themes) = 1
    /\ \E i \in 1..2 :
          /\ filtered[1].built.themes[i].label = filtered[1].data.themes[1].label
          /\ filtered[1].built.themes[i].size > filtered[1].data.themes[1].size
    /\ filtered[1].built.top_features # <<>>
    /\ filtered[1].data.top_features = <<>>

(***************************************************************************)
(* submit_labels on its own: the requests of one and of two items over a   *)
(* store of two tickets.                                                   *)
(***************************************************************************)
ReviewItems ==
    { [ticket_id |-> id, vertical_slug |-> v.vertical_slug,
       vertical_name |-> v.vertical_name, note |-> ""] :
        id \in {1, 2}, v \in ItemVerticals \cup BothItemVerticals }

ReviewLists ==
    { <<a>> : a \in ReviewItems } \cup { <<a, b>> : a, b \in ReviewItems }

InitSubmit ==
    /\ tickets = [i \in 1..2 |-> [id |-> i, p |-> i, type |-> "unknown"]]
    /\ tpv = {}
    /\ gold = {}
    /\ emb = {}
    /\ theme_rows = 0
    /\ result = [op |-> "none"]
    /\ CleanIdle
    /\ TypeIdle
    /\ VertIdle
    /\ ExtIdle

review_submit_labels ==
    \E items \in ReviewLists, reviewer \in Reviewers :
        /\ submit_labels(items, reviewer)
        /\ sl_in' = Some(items)
        /\ UNCHANGED <<cleanVars, typeVars, vertVars, suggestVars, raceVars, loadVars,
                       cacheVars, syncVars, filterVars>>

NextSubmit == review_submit_labels

SpecSubmit == InitSubmit /\ [][NextSubmit]_vars

\* The catalog indices whose slug, and whose name, the item names.
ClaimSlugTable ==
    Tabulate([v \in ItemVerticals \cup BothItemVerticals |->
        {i \in 1..Len(VERTICALS) :
            Lower(VERTICALS[i].slug_chars) = Lower(Strip(v.vertical_slug))}])

ClaimNameTable ==
    Tabulate([v \in ItemVerticals \cup BothItemVerticals |->
        {i \in 1..Len(VERTICALS) :
            Lower(VERTICALS[i].name_chars) = Lower(Strip(v.vertical_name))}])

ClaimBySlug(it) ==
    ClaimSlugTable[[vertical_slug |-> it.vertical_slug, vertical_name |-> it.vertical_name]]

ClaimByName(it) ==
    ClaimNameTable[[vertical_slug |-> it.vertical_slug, vertical_name |-> it.vertical_name]]

\* The vertical the claim gives the item: by slug, by name only when the
\* slug names none, 0 when neither names one.
ClaimVertical(it) ==
    IF ClaimBySlug(it) # {} THEN CHOOSE i \in ClaimBySlug(it) : TRUE
    ELSE IF ClaimByName(it) # {} THEN CHOOSE i \in ClaimByName(it) : TRUE
    ELSE 0

\* The last item of the request that names the ticket and resolves.
ClaimLastResolved(items, id) ==
    CHOOSE i \in 1..Len(items) :
        /\ items[i].ticket_id = id
        /\ ClaimVertical(items[i]) # 0
        /\ \A j \in (i + 1)..Len(items) :
              ~(items[j].ticket_id = id /\ ClaimVertical(items[j]) # 0)

\* C25: submit_labels resolves an item by its slug, and by its name only
\* when the slug resolves to nothing; an item that resolves to no vertical is
\* skipped without error and leaves the gold labels and the stored
\* assignments of its ticket as they were; the count returned is the number
\* of the items that resolve.
C25_ResolveAndSkip ==
    [][LET items == sl_in'[1]
           resolved == {i \in 1..Len(items) : ClaimVertical(items[i]) # 0}
       IN  /\ result'.raised = "" => result'.updated = Cardinality(resolved)
           /\ resolved = {} => /\ result'.raised = ""
                               /\ gold' = gold
                               /\ tpv' = tpv
           /\ \A id \in {1, 2} :
                 IF \E i \in resolved : items[i].ticket_id = id
                 THEN result'.raised = "" =>
                        LET v == VERTICALS[ClaimVertical(items[ClaimLastResolved(items, id)])]
                        IN  /\ \E r \in gold' : /\ r.ticket_id = id
                                                /\ r.vertical_slug = v.slug
                                                /\ r.vertical_name = v.name
                            /\ \E r \in tpv' : /\ r.ticket_id = id
                                               /\ r.vertical_slug = v.slug
                 ELSE /\ ClaimRows(gold', id) = ClaimRows(gold, id)
                      /\ ClaimRows(tpv', id) = ClaimRows(tpv, id)]_vars

\* A request of two items has returned 1: the item of ticket 1 resolves to
\* nothing and left the label of ticket 1 as it was, the item of ticket 2
\* names FX-Service by slug and Client Portal by name and is stored as
\* fx-service.
C25_Witness ==
    /\ sl_in # None
    /\ Len(sl_in[1]) = 2
    /\ sl_in[1][1].ticket_id = 1
    /\ ClaimVertical(sl_in[1][1]) = 0
    /\ sl_in[1][2].ticket_id = 2
    /\ ClaimBySlug(sl_in[1][2]) # {}
    /\ ClaimByName(sl_in[1][2]) # {}
    /\ ClaimBySlug(sl_in[1][2]) # ClaimByName(sl_in[1][2])
    /\ result.op = "submit_labels"
    /\ result.raised = ""
    /\ result.updated = 1
    /\ \E r \in gold : r.ticket_id = 1
    /\ \E r \in gold : r.ticket_id = 2 /\ r.vertical_slug = "fx-service"


(***************************************************************************)
(* The choice among several Stage A candidates.                            *)
(***************************************************************************)
\* The confidence with which the catalog vertical i matches the ticket of the
\* request in Stage A as the claim reads it, 0 when it does not match: a Jira
\* project key gives 0.95, a Jira label or a helpdesk tag gives 0.90.
ClaimMatchConf(i) ==
    IF /\ pv_in.source = "jira"
       /\ ClaimProjectKey # <<>>
       /\ \E j \in 1..Len(VERTICALS[i].jira_projects) :
             Upper(VERTICALS[i].jira_projects[j]) = ClaimProjectKey
    THEN CONF_PROJECT
    ELSE IF \E lab \in LabelSet(pv_in.labels_csv) :
               \/ /\ pv_in.source = "jira"
                  /\ \E j \in 1..Len(VERTICALS[i].jira_labels) :
                        Lower(VERTICALS[i].jira_labels[j]) = lab
               \/ /\ pv_in.source = "zendesk"
                  /\ \E j \in 1..Len(VERTICALS[i].zendesk_tags) :
                        Lower(VERTICALS[i].zendesk_tags[j]) = lab
         THEN CONF_LABEL
         ELSE 0

\* The catalog verticals that match the ticket of the request in Stage A.
ClaimMatched == {i \in 1..Len(VERTICALS) : ClaimMatchConf(i) > 0}

\* C26: when several catalog verticals match in Stage A, the vertical returned
\* is one of them with its own confidence, no matching vertical has a higher
\* confidence (a 0.95 project match beats every 0.90 label or tag match), and
\* the returned vertical is horizontal only when every matching vertical of
\* that confidence is horizontal.
C26_HighestConfidence ==
    (pv_out # None /\ Cardinality(ClaimMatched) >= 2) =>
        /\ \E i \in ClaimMatched :
              /\ VERTICALS[i].slug = pv_out[1].slug
              /\ ClaimMatchConf(i) = pv_out[1].conf
        /\ \A j \in ClaimMatched : ClaimMatchConf(j) <= pv_out[1].conf
        /\ pv_out[1].slug \in horizontal =>
              \A j \in ClaimMatched :
                  ClaimMatchConf(j) = pv_out[1].conf => VERTICALS[j].slug \in horizontal

\* A domain-specific vertical was returned although a horizontal vertical,
\* later in the catalog, matched with the same confidence.
C26_Witness ==
    /\ pv_out # None
    /\ pv_out[1].slug \notin horizontal
    /\ pv_out[1].slug \in Slugs
    /\ \E i, j \in ClaimMatched :
          /\ VERTICALS[i].slug = pv_out[1].slug
          /\ VERTICALS[j].slug \in horizontal
          /\ i < j
          /\ ClaimMatchConf(j) = pv_out[1].conf


(***************************************************************************)
(* The order and the length of the suggestions.                            *)
(***************************************************************************)
\* The themes of the scored build that have tickets.
ClaimScored == {i \in 1..Len(sg_in) : sg_in[i].rows # <<>>}

\* The scores the theme i of the scored build may be given.
ClaimScores(i) ==
    LET rows == sg_in[i].rows
    IN  RoundScore(ScoreTerms(Len(rows), ClaimMaxSize,
                              Cardinality({j \in 1..Len(rows) : IsRecent(rows[j])}),
                              Cardinality({j \in 1..Len(rows) : IsHighPriority(rows[j])})))

\* The returned suggestions come by non-increasing score.
ClaimByScore ==
    \A i, j \in 1..Len(sg_out[1].suggestions) :
        i < j => sg_out[1].suggestions[i].score >= sg_out[1].suggestions[j].score

\* Every returned suggestion is that of a theme of the build, no theme is
\* returned twice, and a theme that is not returned has a score no higher
\* than any returned one.
ClaimHighestKept ==
    LET sugs == sg_out[1].suggestions
        kept == {sugs[i].label : i \in 1..Len(sugs)}
    IN  /\ Cardinality(kept) = Len(sugs)
        /\ \A i \in 1..Len(sugs) :
              \E t \in ClaimScored :
                  sg_in[t].label = sugs[i].label /\ sugs[i].score \in ClaimScores(t)
        /\ \A t \in ClaimScored :
              sg_in[t].label \notin kept =>
                  \E sc \in ClaimScores(t) : \A i \in 1..Len(sugs) : sc <= sugs[i].score

\* C27: the suggestions are ordered by non-increasing score and
\* hold at most top_n entries for every requested top_n, the entries kept
\* being those with the highest scores.
C27_AtMostTopN ==
    sg_out # None =>
        /\ ClaimByScore
        /\ Len(sg_out[1].suggestions) <= sg_out[1].top_n
        /\ ClaimHighestKept


(***************************************************************************)
(* The calibration measures the structured rules against themselves.       *)
(***************************************************************************)
\* The rules of Stage A as an explanation names them.
ClaimStageARules == {"jira_project", "jira_label", "zendesk_tag"}

\* C28: in the calibration run every ground-truth ticket is one that Stage A
\* matches, and the full classifier's prediction for it is that same Stage A
\* result: the predicted slug is the ground-truth slug, the confidence is
\* 0.90 or 0.95 and the explanation is that of a structured rule, never that
\* of the ensemble; hence at every threshold correct_assigned = n_assigned
\* and the precision is 1.0 (n / n) or undefined.
C28_CalibrationAgainstItself ==
    result.op = "calibrate_precision_coverage" =>
        /\ \A i \in ClaimLabeled :
              LET pred == PoolVertical[tickets[i].p]
                  gt == rule_based_vertical(Payload(tickets[i]).source,
                                            Payload(tickets[i]).labels,
                                            Payload(tickets[i]).project)
              IN  /\ gt.slug \in Slugs
                  /\ pred = gt
                  /\ pred.slug = gt.slug
                  /\ pred.conf \in {CONF_LABEL, CONF_PROJECT}
                  /\ pred.exp.rule \in ClaimStageARules
        /\ \A r \in 1..Len(result.by_threshold) :
              LET row == result.by_threshold[r]
              IN  /\ row.correct_assigned = row.n_assigned
                  /\ row.precision \in {None, Some(<<row.n_assigned, row.n_assigned>>)}
                  /\ row.threshold <= CONF_LABEL => row.n_assigned = row.total_labeled
                  /\ row.n_assigned = Cardinality({i \in ClaimLabeled :
                                           PoolVertical[tickets[i].p].conf >= row.threshold})

\* A sweep over a ticket labelled by its project key and one labelled by a
\* helpdesk tag: both are assigned and correct at 0.90, the first alone at
\* 0.95.
C28_Witness ==
    /\ result.op = "calibrate_precision_coverage"
    /\ result.total_labeled = 2
    /\ \E i, j \in ClaimLabeled :
          /\ PoolVertical[tickets[i].p].conf = CONF_PROJECT
          /\ PoolVertical[tickets[j].p].conf = CONF_LABEL
    /\ \E r, s \in 1..Len(result.by_threshold) :
          /\ result.by_threshold[r].threshold = CONF_LABEL
          /\ result.by_threshold[r].correct_assigned = 2
          /\ result.by_threshold[r].precision = Some(<<2, 2>>)
          /\ result.by_threshold[s].threshold = CONF_PROJECT
          /\ result.by_threshold[s].correct_assigned = 1
          /\ result.by_threshold[s].precision = Some(<<1, 1>>)


(***************************************************************************)
(* The watermark of a source across its sync runs.                         *)
(***************************************************************************)
\* The time of age a is not before the time of age b.
ClaimNotBefore(a, b) == a <= b

\* C29: for each source the stored watermark never decreases across the sync
\* runs (a stored watermark stays stored and never moves back in time); a
\* run whose fetch raises, or that reports an error, reports ok = false; and
\* a run that reports ok = false leaves the stored tickets and every
\* watermark as they were before the run.
C29_WatermarkMonotone ==
    [][/\ \A s \in Sources :
             sync_state[s] # NoWatermark =>
                 /\ sync_state'[s] # NoWatermark
                 /\ ClaimNotBefore(sync_state'[s], sync_state[s])
       /\ \A name \in Sources : \A items \in Batches(name) :
             _sync_source(name, items, FALSE) => ~result'.ok
       /\ (result'.op = "_sync_source" /\ result'.error # "") => ~result'.ok
       /\ (result'.op = "_sync_source" /\ ~result'.ok) =>
             /\ tickets' = tickets
             /\ sync_state' = sync_state]_vars

\* A run of a source failed at its commit after an earlier run had stored
\* tickets and moved the watermark of that source past the default window.
C29_Witness ==
    /\ result.op = "_sync_source"
    /\ ~result.ok
    /\ result.error = "IntegrityError"
    /\ sync_state[result.source] # NoWatermark
    /\ sync_state[result.source] < HISTORY_DAYS
    /\ \E i \in 1..Len(tickets) : Payload(tickets[i]).source = result.source


(***************************************************************************)
(* The types of the themes and the actions suggested for them.             *)
(***************************************************************************)
ClaimThemeTypes == {"issue", "feature_request"}

ClaimActions == {"Prioritize a bugfix sprint for", "Scope an epic and RFC for"}

\* C30: every theme of a build has the type issue or feature_request, never
\* mixed or unknown, and a theme made only of unknown tickets has the type
\* issue; so no suggestion of suggest_themes over a build carries the triage
\* action: a suggestion for an issue theme has the bugfix-sprint template and
\* one for a feature_request theme has the epic/RFC template.
C30_NoTriageAction ==
    /\ ClaimBuilt =>
          \A i \in 1..Len(result.themes) :
              /\ result.themes[i].type \in ClaimThemeTypes
              /\ (\A j \in 1..Len(result.themes[i].tickets) :
                      result.themes[i].tickets[j].type = "unknown")
                    => result.themes[i].type = "issue"
    /\ sg_out # None =>
          \A i \in 1..Len(sg_out[1].suggestions) :
              LET s == sg_out[1].suggestions[i]
              IN  /\ s.type \in ClaimThemeTypes
                  /\ s.suggested_action \in ClaimActions
                  /\ s.suggested_action # "Triage and split theme into fixes and features"
                  /\ s.type = "issue" <=> s.suggested_action = "Prioritize a bugfix sprint for"
                  /\ s.type = "feature_request" <=> s.suggested_action = "Scope an epic and RFC for"

\* The suggestions of a build with a theme made only of unknown tickets: the
\* theme has the type issue and its suggestion the bugfix-sprint action.
C30_Witness ==
    /\ ClaimBuilt
    /\ sg_out # None
    /\ sg_in = [i \in 1..Len(result.themes) |->
                   [label |-> result.themes[i].label, type |-> result.themes[i].type,
                    rows |-> sg_in[i].rows]]
    /\ \E i \in 1..Len(result.themes) :
          /\ \A j \in 1..Len(result.themes[i].tickets) :
                result.themes[i].tickets[j].type = "unknown"
          /\ result.themes[i].type = "issue"
          /\ \E n \in 1..Len(sg_out[1].suggestions) :
                /\ sg_out[1].suggestions[n].label = result.themes[i].label
                /\ sg_out[1].suggestions[n].size = result.themes[i].size
                /\ sg_out[1].suggestions[n].suggested_action = "Prioritize a bugfix sprint for"

=============================================================================
